---------------------------- MODULE Spec2Model ----------------------------
(***************************************************************************)
(* Model of the Intelbras AMT bridge (pepito2k/addons-alarma-intelbras):   *)
(*   - the ISECNet checksum, frame and streaming reader,                   *)
(*   - the ISECMobile frame builder and parser,                            *)
(*   - the zone-state update of the two protocol handlers,                 *)
(*   - the AMT server (read task, auto-acks, pending-response slot,        *)
(*     send_command) together with the bridge threads that dispatch        *)
(*     commands under the bridge mutex.                                    *)
(* One module, several specifications: each specification moves its own    *)
(* group of variables and leaves the other groups untouched.               *)
(***************************************************************************)
EXTENDS Integers, Sequences, FiniteSets, TLC

VARIABLES
    \* --- streaming reader (ISECNetFrameReader) ---
    stream,         \* the bytes the peer sends in total
    fed,            \* how many of them have been fed so far
    nfeeds,         \* number of feed() calls made
    buffer,         \* ISECNetFrameReader._buffer
    frames,         \* concatenation of the lists feed() returned
    \* --- ISECMobile frame ---
    mInput,         \* [password, opcode, body] given to create()
    mpc,            \* "start" | "created" | "built" | "parsed"
    mFrame,         \* the ISECMobileFrame created
    mBytes,         \* build() of it
    mParsed,        \* parse() of the bytes
    \* --- zone states of the protocol handlers ---
    zProtocol,      \* "isecnet" | "amt8000"
    zone_states,    \* zone id -> state string
    lastOp,         \* the last operation applied to zone_states
    \* --- bridge threads and the bridge mutex ---
    protocol,       \* "isecnet" | "amt8000": the handler the bridge runs
    alarm_lock,     \* "free" or the thread holding threading.Lock()
    tpc,            \* thread -> position in its code
    top,            \* thread -> the command it submitted and waits for (0: none)
    mqtt_command,   \* the MQTT command on_message is handling ("none": idle)
    nextOp,         \* number given to the next submitted command
    timers,         \* Siren-OFF threading.Timer objects not yet fired
    \* --- AMT server: one panel connection ---
    conn,           \* "never" | "up" | "closed"
    connection_id,  \* ISECNetProtocolHandler.connection_id (0: None)
    pending_response, \* AMTConnection.pending_response (0: None, else the
                    \* command whose send created the future)
    fut,            \* future created by a command: none|pending|result|cancelled
    cpc,            \* send_command coroutine of a command: position
    cres,           \* ... and its outcome
    cwait,          \* the future the coroutine passed to wait_for
    delayed,        \* drain() of the coroutine suspended
    panelRecv,      \* commands the panel received and has not answered
    loop_running,   \* the handler's server and event loop exist and run
    lastIO,         \* what the last step read from / wrote to the connection
    lastExit,       \* the ISECNet handler call the last step ended, and how
    \* --- ISECNet frame round trip ---
    nInput,         \* [command, content] given to ISECNetFrame(...)
    npc,            \* "start" | "built" | "parsed"
    nBytes,         \* build() of the frame
    nParsed,        \* parse() of the bytes (NoFrame: ISECNetError)
    \* --- reader fed with well-formed frames ---
    items,          \* what the stream was made of: [bare, frame] records
    \* --- ISECNet status poll: from the response content to the topics ---
    sContent,       \* content of the response frame of the last poll
    sZones,         \* the handler's zone_states
    sPolled,        \* what the last poll parsed and published
    sWhy,           \* how far the last poll got: "none" | "no_connection" |
                    \* "timeout" | "response"
    \* --- command tokens of handle_command ---
    aIntent,        \* [verb, partition] the token stands for
    aToken,         \* the token given to handle_command, one character each
    apc,            \* "start" | "handled"
    aWritten,       \* the bytes handle_command had written to the panel
    \* --- one call of a parsing or classifying function ---
    callArg,        \* the argument of the call
    callpc,         \* "idle" | "start" | "returned"
    callResult,     \* what the call returned
    \* --- AMTServer lifecycle (isecnet/server) ---
    srv_running,    \* AMTServer._running
    listener,       \* AMTServer._server: "none" | "open" | "closed"
    connections,    \* ConnectionManager._connections: the registered ids
    hpc,            \* per connection, where its _handle_client task is
    writer,         \* per connection: "none" | "open" | "closed"
    cleanup,        \* per connection, what its cleanup has done, in order
    stop_pc,        \* where stop() is: "idle" | "close_all" | "wait_closed"
    stop_todo,      \* close_all: the connections of its list not yet closed
    stop_result,    \* what the last stop() left when it returned
    handler_connection_id, \* ISECNetProtocolHandler.connection_id (0: None)
    \* --- legacy client and handler (client.py, protocol_handlers/amt8000.py) ---
    client,         \* Client: _is_connected, _socket, and the sockets so far
    lastCall,       \* the last call made on the client directly
    lpc,            \* handler: "idle" | "auth" | "act" | "done"
    lcommand,       \* the command (or "poll") the handler is working on
    attempt,        \* connect_and_auth_alarm: the attempt about to be made
    tries,          \* the outcomes of the attempts made for this command
    requests,       \* the requests sent for this command after the auth
    \* --- the signal handler (addon_main.py handle_shutdown) ---
    shutdown_event, \* the shutdown flag
    availability,   \* the last message published on the availability topic
    mqtt_loop,      \* the MQTT network loop: "running" | "stopped"
    down,           \* the steps of handle_shutdown done so far, in order
    \* --- the polling thread (addon_main.py status_polling_thread) ---
    poll_protocol,  \* ALARM_PROTOCOL of the polling thread
    poll_pc,        \* "while" | "with" | "wait" | "returned" | "raised"
    poll_log,       \* how each poll made so far ended
    \* --- the writer of one connection (isecnet/server/tcp_server.py) ---
    wpc,            \* per write: "idle" | "queued" | "writing" | "drain" | "done"
    wfrom,          \* per write: the thread that asked for it
    wleft,          \* per write: its bytes not yet given to the writer
    wbuf,           \* the transport's buffer: bytes written, not yet sent
    wire,           \* the bytes the socket has sent to the panel
    wlog            \* the writer.write() calls so far: [w, by]

readerVars == <<stream, fed, nfeeds, buffer, frames>>
mobileVars == <<mInput, mpc, mFrame, mBytes, mParsed>>
zoneVars   == <<zProtocol, zone_states, lastOp>>
threadVars == <<protocol, alarm_lock, tpc, top, mqtt_command, nextOp, timers>>
serverVars == <<conn, connection_id, pending_response, fut, cpc, cres, cwait,
                delayed, panelRecv, loop_running>>
bridgeVars == <<threadVars, serverVars, lastIO, lastExit>>
netVars    == <<nInput, npc, nBytes, nParsed>>
\* the groups of the specifications of pure functions added to the model
statusVars == <<sContent, sZones, sPolled, sWhy>>
tokenVars  == <<aIntent, aToken, apc, aWritten>>
callVars   == <<callArg, callpc, callResult>>
lifeVars   == <<srv_running, listener, connections, hpc, writer, cleanup,
                stop_pc, stop_todo, stop_result, handler_connection_id>>
legacyVars == <<client, lastCall, lpc, lcommand, attempt, tries, requests>>
downVars   == <<shutdown_event, availability, mqtt_loop, down>>
pollVars   == <<poll_protocol, poll_pc, poll_log>>
wireVars   == <<wpc, wfrom, wleft, wbuf, wire, wlog>>
moreVars   == <<pollVars, wireVars>>
lateVars   == <<lifeVars, legacyVars, downVars, moreVars>>
pureVars   == <<netVars, items, statusVars, tokenVars, callVars, lateVars>>
vars       == <<readerVars, mobileVars, zoneVars, bridgeVars, pureVars>>

(***************************************************************************)
(* Bytes                                                                   *)
(***************************************************************************)
Min(a, b) == IF a < b THEN a ELSE b

RECURSIVE Xor(_, _)
\* bitwise exclusive or of two naturals (Python's ^ on ints)
Xor(a, b) ==
    IF a = 0 THEN b
    ELSE IF b = 0 THEN a
    ELSE (((a % 2) + (b % 2)) % 2) + (2 * Xor(a \div 2, b \div 2))

RECURSIVE XorAll(_)
\* `for byte in data: checksum ^= byte`, from 0.  XOR is associative, so the
\* sequence is folded by halves, which keeps the evaluation shallow for the
\* longest frames.
XorAll(s) ==
    IF s = <<>> THEN 0
    ELSE IF Len(s) = 1 THEN s[1]
    ELSE LET h == Len(s) \div 2
         IN  Xor(XorAll(SubSeq(s, 1, h)), XorAll(SubSeq(s, h + 1, Len(s))))

\* s[:-1]
ButLast(s) == SubSeq(s, 1, Len(s) - 1)

(***************************************************************************)
(* Protocol constants (isecnet/const.py)                                   *)
(***************************************************************************)
ISECNET_COMMAND_MOBILE == 233
ISECNET_COMMAND_HEARTBEAT == 247
CONNECTION_INFO_COMMAND == 148
ResponseCode_ACK == 254
ISECMOBILE_FRAME_DELIMITER == 33
ISECMOBILE_PASSWORD_MIN_LEN == 4
ISECMOBILE_PASSWORD_MAX_LEN == 6
ISECMOBILE_CONTENT_MAX_LEN == 52

(***************************************************************************)
(* Checksum (isecnet/protocol/checksum.py)                                 *)
(***************************************************************************)
Checksum_calculate(data) == Xor(XorAll(data), 255)

Checksum_verify(data, expected_checksum) ==
    Checksum_calculate(data) = expected_checksum

Checksum_append(data) == Append(data, Checksum_calculate(data))

\* Checksum.validate_packet as it would be without the payload requirement
Checksum_validate_packet_any_length(packet) ==
    IF Len(packet) < 1 THEN FALSE
    ELSE Checksum_verify(ButLast(packet), packet[Len(packet)])

Checksum_validate_packet(packet) ==
    IF Len(packet) < 2 THEN FALSE
    ELSE Checksum_verify(ButLast(packet), packet[Len(packet)])

(***************************************************************************)
(* ISECNet frame (isecnet/protocol/isecnet.py)                             *)
(***************************************************************************)
NoFrame == [command |-> -1, content |-> <<>>]

ISECNetFrame(command, content) == [command |-> command, content |-> content]

\* build() as it would be if the length byte counted the content only
ISECNetFrame_build_content_size(frame) ==
    Checksum_append(<<Len(frame.content), frame.command>> \o frame.content)

\* size = 1 + len(content); [size, command] + content + checksum
ISECNetFrame_build(frame) ==
    Checksum_append(<<1 + Len(frame.content), frame.command>> \o frame.content)

\* parse() raises ISECNetError on a short frame, a length mismatch or a bad
\* checksum; try_parse() turns the error into None (NoFrame here).
ISECNetFrame_try_parse(data) ==
    IF Len(data) < 3 THEN NoFrame
    ELSE IF Len(data) # data[1] + 2 THEN NoFrame
    ELSE IF ~Checksum_validate_packet(data) THEN NoFrame
    ELSE ISECNetFrame(data[2], SubSeq(data, 3, Len(data) - 1))

ISECNetFrame_create_mobile_frame(isecmobile_content) ==
    ISECNetFrame(ISECNET_COMMAND_MOBILE, isecmobile_content)

ISECNetFrame_create_ack_response ==
    ISECNetFrame(ISECNET_COMMAND_MOBILE, <<ResponseCode_ACK>>)

\* create_simple_ack as it would be if it wrapped the ACK in a 0xE9 frame,
\* as create_ack_response does
ISECNetFrame_create_simple_ack_wrapped ==
    ISECNetFrame(ISECNET_COMMAND_MOBILE, <<ResponseCode_ACK>>)

\* the ACK code sent as the command itself, without content
ISECNetFrame_create_simple_ack == ISECNetFrame(ResponseCode_ACK, <<>>)

is_heartbeat(frame) == frame.command = ISECNET_COMMAND_HEARTBEAT

(***************************************************************************)
(* Streaming reader (ISECNetFrameReader)                                   *)
(***************************************************************************)
\* _try_extract_frame as it would be if a frame whose bytes have not all
\* arrived were treated like an invalid one (first byte discarded) instead
\* of being left in the buffer
try_extract_frame_impatient(buf, out) ==
    IF Len(buf) < 1 THEN [again |-> FALSE, buffer |-> buf, frames |-> out]
    ELSE IF buf[1] = ISECNET_COMMAND_HEARTBEAT
      THEN [again |-> TRUE, buffer |-> Tail(buf),
            frames |-> Append(out, ISECNetFrame(ISECNET_COMMAND_HEARTBEAT, <<>>))]
    ELSE IF Len(buf) < 3 THEN [again |-> FALSE, buffer |-> buf, frames |-> out]
    ELSE IF buf[1] < 1 THEN [again |-> TRUE, buffer |-> Tail(buf), frames |-> out]
    ELSE IF Len(buf) < buf[1] + 2
      THEN [again |-> TRUE, buffer |-> Tail(buf), frames |-> out]
    ELSE LET total_size == buf[1] + 2
             frame == ISECNetFrame_try_parse(SubSeq(buf, 1, total_size))
         IN  IF frame # NoFrame
               THEN [again |-> TRUE,
                     buffer |-> SubSeq(buf, total_size + 1, Len(buf)),
                     frames |-> Append(out, frame)]
               ELSE [again |-> TRUE, buffer |-> Tail(buf), frames |-> out]

\* _try_extract_frame as it would be without the branch for the bare 0xF7
try_extract_frame_no_heartbeat(buf, out) ==
    IF Len(buf) < 3 THEN [again |-> FALSE, buffer |-> buf, frames |-> out]
    ELSE IF buf[1] < 1 THEN [again |-> TRUE, buffer |-> Tail(buf), frames |-> out]
    ELSE IF Len(buf) < buf[1] + 2
      THEN [again |-> FALSE, buffer |-> buf, frames |-> out]
    ELSE LET total_size == buf[1] + 2
             frame == ISECNetFrame_try_parse(SubSeq(buf, 1, total_size))
         IN  IF frame # NoFrame
               THEN [again |-> TRUE,
                     buffer |-> SubSeq(buf, total_size + 1, Len(buf)),
                     frames |-> Append(out, frame)]
               ELSE [again |-> TRUE, buffer |-> Tail(buf), frames |-> out]

\* _try_extract_frame as it would be if the bytes of an invalid frame were
\* all dropped (del self._buffer[:total_size]) instead of the first one
try_extract_frame_drop_candidate(buf, out) ==
    IF Len(buf) < 1 THEN [again |-> FALSE, buffer |-> buf, frames |-> out]
    ELSE IF buf[1] = ISECNET_COMMAND_HEARTBEAT
      THEN [again |-> TRUE, buffer |-> Tail(buf),
            frames |-> Append(out, ISECNetFrame(ISECNET_COMMAND_HEARTBEAT, <<>>))]
    ELSE IF Len(buf) < 3 THEN [again |-> FALSE, buffer |-> buf, frames |-> out]
    ELSE IF buf[1] < 1 THEN [again |-> TRUE, buffer |-> Tail(buf), frames |-> out]
    ELSE IF Len(buf) < buf[1] + 2
      THEN [again |-> FALSE, buffer |-> buf, frames |-> out]
    ELSE LET total_size == buf[1] + 2
             frame == ISECNetFrame_try_parse(SubSeq(buf, 1, total_size))
         IN  [again |-> TRUE,
              buffer |-> SubSeq(buf, total_size + 1, Len(buf)),
              frames |-> IF frame # NoFrame THEN Append(out, frame) ELSE out]

\* One call of _try_extract_frame on (buffer, frames): the new buffer, the
\* new frame list and the value returned (whether to try again).
try_extract_frame(buf, out) ==
    IF Len(buf) < 1 THEN [again |-> FALSE, buffer |-> buf, frames |-> out]
    ELSE IF buf[1] = ISECNET_COMMAND_HEARTBEAT
      THEN [again |-> TRUE, buffer |-> Tail(buf),
            frames |-> Append(out, ISECNetFrame(ISECNET_COMMAND_HEARTBEAT, <<>>))]
    ELSE IF Len(buf) < 3 THEN [again |-> FALSE, buffer |-> buf, frames |-> out]
    ELSE IF buf[1] < 1 THEN [again |-> TRUE, buffer |-> Tail(buf), frames |-> out]
    ELSE IF Len(buf) < buf[1] + 2
      THEN [again |-> FALSE, buffer |-> buf, frames |-> out]
    ELSE LET total_size == buf[1] + 2
             frame == ISECNetFrame_try_parse(SubSeq(buf, 1, total_size))
         IN  IF frame # NoFrame
               THEN [again |-> TRUE,
                     buffer |-> SubSeq(buf, total_size + 1, Len(buf)),
                     frames |-> Append(out, frame)]
               ELSE [again |-> TRUE, buffer |-> Tail(buf), frames |-> out]

RECURSIVE extract_loop(_, _)
\* while self._try_extract_frame(frames): pass
extract_loop(buf, out) ==
    LET r == try_extract_frame(buf, out)
    IN  IF r.again THEN extract_loop(r.buffer, r.frames)
        ELSE [buffer |-> r.buffer, frames |-> r.frames]

\* feed(data) on a reader whose buffer is buf: the buffer left and the
\* frames returned by this call.
feed(buf, data) == extract_loop(buf \o data, <<>>)

(***************************************************************************)
(* Specification of the reader: a byte stream fed in arbitrary chunks      *)
(***************************************************************************)
MaxStreamLen == 5

\* Bytes that make well-formed frames (01 FE 00, 01 00 FE, 02 FE 01 02,
\* 02 01 02 FE, ...), heartbeats, zero lengths and checksum failures.
StreamBytes == {0, 1, 2, 247, 254}

RECURSIVE SeqsUpTo(_, _)
SeqsUpTo(S, n) ==
    IF n = 0 THEN {<<>>}
    ELSE LET shorter == SeqsUpTo(S, n - 1)
         IN  shorter \cup {Append(s, b) : s \in {x \in shorter : Len(x) = n - 1}, b \in S}

InitReader ==
    /\ stream \in SeqsUpTo(StreamBytes, MaxStreamLen)
    /\ fed = 0
    /\ nfeeds = 0
    /\ buffer = <<>>
    /\ frames = <<>>

IdleReader ==
    /\ stream = <<>>
    /\ fed = 0
    /\ nfeeds = 0
    /\ buffer = <<>>
    /\ frames = <<>>

\* The read task feeds whatever reader.read(1024) returned: the next n bytes.
ReaderFeed ==
    \E n \in 1 .. (Len(stream) - fed) :
        LET r == feed(buffer, SubSeq(stream, fed + 1, fed + n))
        IN  /\ fed' = fed + n
            /\ nfeeds' = nfeeds + 1
            /\ buffer' = r.buffer
            /\ frames' = frames \o r.frames
            /\ UNCHANGED stream

(***************************************************************************)
(* ISECMobile frame (isecnet/protocol/isecmobile.py)                       *)
(***************************************************************************)
MobileError == [ok |-> FALSE, password |-> <<>>, command |-> <<>>, content |-> <<>>]

ISECMobileFrame(password, command, content) ==
    [ok |-> TRUE, password |-> password, command |-> command, content |-> content]

\* create(password, command: int, content): validates the lengths
ISECMobileFrame_create(password, command, content) ==
    IF ~(ISECMOBILE_PASSWORD_MIN_LEN <= Len(password)
         /\ Len(password) <= ISECMOBILE_PASSWORD_MAX_LEN) THEN MobileError
    ELSE IF Len(content) > ISECMOBILE_CONTENT_MAX_LEN THEN MobileError
    ELSE ISECMobileFrame(password, <<command>>, content)

ISECMobileFrame_build(frame) ==
    <<ISECMOBILE_FRAME_DELIMITER>> \o frame.password \o frame.command
        \o frame.content \o <<ISECMOBILE_FRAME_DELIMITER>>

\* The password length is guessed: 4, unless one of inner[4], inner[5],
\* inner[6] (0-based, and below len(inner) - 1) lies in 0x41..0x50.
ISECMobileFrame_password_len(inner) ==
    LET hits == {i \in ISECMOBILE_PASSWORD_MIN_LEN ..
                        (Min(ISECMOBILE_PASSWORD_MAX_LEN + 1, Len(inner) - 1) - 1) :
                    inner[i + 1] >= 65 /\ inner[i + 1] <= 80}
    IN  IF hits = {} THEN ISECMOBILE_PASSWORD_MIN_LEN
        ELSE CHOOSE i \in hits : \A j \in hits : i <= j

ISECMobileFrame_parse(data) ==
    IF Len(data) < 6 THEN MobileError
    ELSE IF data[1] # ISECMOBILE_FRAME_DELIMITER THEN MobileError
    ELSE IF data[Len(data)] # ISECMOBILE_FRAME_DELIMITER THEN MobileError
    ELSE LET inner == SubSeq(data, 2, Len(data) - 1)
         IN  IF Len(inner) < ISECMOBILE_PASSWORD_MIN_LEN + 1 THEN MobileError
             ELSE LET password_len == ISECMobileFrame_password_len(inner)
                      remaining == SubSeq(inner, password_len + 1, Len(inner))
                  IN  IF Len(remaining) = 0 THEN MobileError
                      ELSE ISECMobileFrame(SubSeq(inner, 1, password_len),
                                           <<remaining[1]>>, Tail(remaining))

(***************************************************************************)
(* Specification of the ISECMobile round trip                              *)
(***************************************************************************)
MaxBodyLen == 2

\* ASCII digits used in passwords ("0" and "9"), the opcodes of the command
\* catalog, and body bytes (partition codes, PGM action, PGM address).
PasswordDigits == {48, 57}
CatalogOpcodes == {65, 68, 67, 99, 80, 90, 91}
BodyBytes == {65, 68, 76, 49}

Passwords ==
    {p \in SeqsUpTo(PasswordDigits, ISECMOBILE_PASSWORD_MAX_LEN) :
        Len(p) >= ISECMOBILE_PASSWORD_MIN_LEN}

InitMobile ==
    /\ mInput \in [password : Passwords, opcode : CatalogOpcodes,
                   body : SeqsUpTo(BodyBytes, MaxBodyLen)]
    /\ mpc = "start"
    /\ mFrame = MobileError
    /\ mBytes = <<>>
    /\ mParsed = MobileError

IdleMobile ==
    /\ mInput = [password |-> <<>>, opcode |-> 0, body |-> <<>>]
    /\ mpc = "idle"
    /\ mFrame = MobileError
    /\ mBytes = <<>>
    /\ mParsed = MobileError

MobileCreate ==
    /\ mpc = "start"
    /\ mFrame' = ISECMobileFrame_create(mInput.password, mInput.opcode, mInput.body)
    /\ mpc' = "created"
    /\ UNCHANGED <<mInput, mBytes, mParsed>>

MobileBuild ==
    /\ mpc = "created"
    /\ mFrame.ok
    /\ mBytes' = ISECMobileFrame_build(mFrame)
    /\ mpc' = "built"
    /\ UNCHANGED <<mInput, mFrame, mParsed>>

MobileParse ==
    /\ mpc = "built"
    /\ mParsed' = ISECMobileFrame_parse(mBytes)
    /\ mpc' = "parsed"
    /\ UNCHANGED <<mInput, mFrame, mBytes>>

(***************************************************************************)
(* Zone states (protocol_handlers/isecnet.py, protocol_handlers/amt8000.py)*)
(***************************************************************************)
ZoneCount == 3

Zones == 1 .. ZoneCount

NoOp == [kind |-> "none", open |-> {}, violated |-> {}]

\* ISECNetProtocolHandler.poll_status, the loop over the configured zones
isecnet_zone_update(states, open_zones, violated_zones) ==
    [z \in Zones |->
        IF z \in violated_zones THEN "Disparada"
        ELSE IF z \in open_zones THEN "Abierta"
        ELSE IF states[z] # "Disparada" THEN "Cerrada"
        ELSE states[z]]

\* AMT8000ProtocolHandler.poll_status, the loop over status["zones"]
amt8000_zone_update(states, open_zones) ==
    [z \in Zones |->
        IF states[z] # "Disparada"
          THEN (IF z \in open_zones THEN "Abierta" ELSE "Cerrada")
          ELSE states[z]]

InitZones ==
    /\ zProtocol \in {"isecnet", "amt8000"}
    /\ zone_states = [z \in Zones |-> "Desconocido"]
    /\ lastOp = NoOp

IdleZones ==
    /\ zProtocol = "none"
    /\ zone_states = [z \in Zones |-> "Desconocido"]
    /\ lastOp = NoOp

\* A successful ISECNet poll whose status reports these zone sets
ISECNetPollZones ==
    /\ zProtocol = "isecnet"
    /\ \E open_zones \in SUBSET Zones, violated_zones \in SUBSET Zones :
        /\ zone_states' = isecnet_zone_update(zone_states, open_zones, violated_zones)
        /\ lastOp' = [kind |-> "poll", open |-> open_zones, violated |-> violated_zones]
    /\ UNCHANGED zProtocol

\* A successful AMT8000 poll; the legacy status has no violated bitmap
AMT8000PollZones ==
    /\ zProtocol = "amt8000"
    /\ \E open_zones \in SUBSET Zones :
        /\ zone_states' = amt8000_zone_update(zone_states, open_zones)
        /\ lastOp' = [kind |-> "poll", open |-> open_zones, violated |-> {}]
    /\ UNCHANGED zProtocol

\* receptorip line "Disparo de zona ... <z>"
SidecarZoneTrigger ==
    /\ zProtocol = "amt8000"
    /\ \E z \in Zones :
        /\ zone_states' = [zone_states EXCEPT ![z] = "Disparada"]
        /\ lastOp' = [kind |-> "trigger", open |-> {}, violated |-> {z}]
    /\ UNCHANGED zProtocol

\* receptorip line "Restauracao de zona ... <z>"
SidecarZoneRestore ==
    /\ zProtocol = "amt8000"
    /\ \E z \in Zones :
        /\ zone_states' = [zone_states EXCEPT ![z] = "Cerrada"]
        /\ lastOp' = [kind |-> "restore", open |-> {}, violated |-> {}]
    /\ UNCHANGED zProtocol

\* receptorip line "Desativacao remota app"
SidecarDisarm ==
    /\ zProtocol = "amt8000"
    /\ zone_states' = [z \in Zones |-> "Cerrada"]
    /\ lastOp' = [kind |-> "disarm", open |-> {}, violated |-> {}]
    /\ UNCHANGED zProtocol

\* ISECNetProtocolHandler.handle_command("DISARM") answered with an ACK: the
\* action sends the command and the handler writes no zone state
ISECNetDisarm ==
    /\ zProtocol = "isecnet"
    /\ zone_states' = zone_states
    /\ lastOp' = [kind |-> "disarm", open |-> {}, violated |-> {}]
    /\ UNCHANGED zProtocol

(***************************************************************************)
(* Bridge threads and the bridge mutex (mqtt_runtime.py, addon_main.py,    *)
(* protocol_handlers/isecnet.py, protocol_handlers/amt8000.py)             *)
(***************************************************************************)
MaxOps == 2

Ops == 1 .. MaxOps

\* mqtt: paho's on_message callback; poll: status_polling_thread;
\* postconnect: the thread _on_connect starts; sirenoff: the Timer thread of
\* _schedule_siren_off; sidecar: the reader of the receptorip output.
Threads == {"mqtt", "poll", "postconnect", "sirenoff", "sidecar"}

\* AMTServerConfig(..., auto_ack_heartbeat=True, auto_ack_connection=True)
auto_ack_heartbeat == TRUE
auto_ack_connection == TRUE

\* the panel password of the configuration ("1234")
alarm_pass == <<49, 50, 51, 52>>

\* CommandCode of what a thread sends
Command_code(kind) ==
    CASE kind = "STATUS"    -> 91
      [] kind = "ARM_AWAY"  -> 65
      [] kind = "PANIC"     -> 67
      [] kind = "SIREN_OFF" -> 99

\* Command.build(): ISECNet frame around the ISECMobile frame; the commands
\* sent here have an empty content
Command_build(kind) ==
    ISECNetFrame_build(ISECNetFrame_create_mobile_frame(
        ISECMobileFrame_build(
            ISECMobileFrame_create(alarm_pass, Command_code(kind), <<>>))))

\* the bytes of each command the threads send
CommandBytes ==
    [kind \in {"STATUS", "ARM_AWAY", "PANIC", "SIREN_OFF"} |-> Command_build(kind)]

\* what the thread waiting for command o asked _send_command to send
KindOf(o) ==
    IF top["mqtt"] = o THEN mqtt_command
    ELSE IF top["sirenoff"] = o THEN "SIREN_OFF"
    ELSE "STATUS"

\* nothing read or written in this step
NoIO == [kind |-> "none", command |-> 0, bytes |-> <<>>, re |-> 0,
         how |-> "none", late |-> FALSE]

\* no handler call ended in this step
NoExit == [thread |-> "none", command |-> "none", why |-> "none", how |-> "none"]

\* the command a handler call of thread t is about
CommandOf(t) ==
    IF t = "mqtt" THEN mqtt_command
    ELSE IF t = "sirenoff" THEN "SIREN_OFF"
    ELSE "STATUS"

\* the calls as they would end if none of them caught anything
Failed_uncaught(t, why) ==
    [thread |-> t, command |-> CommandOf(t), why |-> why, how |-> "raised"]

\* how a call of the ISECNet handler ends in thread t when _send_command did
\* not return a response: handle_command catches CommunicationError only,
\* poll_status and _safe_turn_off catch Exception and log
Failed(t, why) ==
    [thread |-> t, command |-> CommandOf(t), why |-> why,
     how |-> IF t = "mqtt" THEN "raised" ELSE "logged"]

\* the handler call of thread t returned
Returned(t, why) ==
    [thread |-> t, command |-> CommandOf(t), why |-> why, how |-> "returned"]

\* threads inside a region the mutex protects
InCritical(t) == tpc[t] \in {"cs", "await", "cs2"}

\* leaving a `with self.alarm_lock:` block
Release(t) ==
    /\ alarm_lock' = "free"
    /\ tpc' = [tpc EXCEPT ![t] = "idle"]
    /\ top' = [top EXCEPT ![t] = 0]
    /\ mqtt_command' = IF t = "mqtt" THEN "none" ELSE mqtt_command

\* `with self.alarm_lock:` entered: threading.Lock.acquire() returns only
\* when the lock is free.  Operations are started only while one more
\* command can still be numbered.
Enter(t) ==
    /\ alarm_lock = "free"
    /\ nextOp <= MaxOps
    /\ alarm_lock' = t
    /\ tpc' = [tpc EXCEPT ![t] = "cs"]

\* _poll_status_after_connect as it would be without its `with` statement
poll_status_after_connect_unlocked == "cs"

\* _poll_status_after_connect: `with self.alarm_lock:` before poll_status()
poll_status_after_connect_entry == "acquire"

\* _process_receptorip_output as it would be with the publish block nested
\* inside the first one
sidecar_after_line_nested(publish_required) ==
    IF publish_required THEN [lock |-> "sidecar", pc |-> "acquire2"]
    ELSE [lock |-> "free", pc |-> "idle"]

\* _process_receptorip_output: the first `with self.alarm_lock:` block ends
\* before the second one (publish_zone_states) begins
sidecar_after_line(publish_required) ==
    [lock |-> "free", pc |-> IF publish_required THEN "acquire2" ELSE "idle"]

InitThreads ==
    /\ protocol \in {"isecnet", "amt8000"}
    /\ alarm_lock = "free"
    /\ tpc = [t \in Threads |-> "idle"]
    /\ top = [t \in Threads |-> 0]
    /\ mqtt_command = "none"
    /\ nextOp = 1
    /\ timers = 0

IdleThreads ==
    /\ protocol = "none"
    /\ alarm_lock = "free"
    /\ tpc = [t \in Threads |-> "idle"]
    /\ top = [t \in Threads |-> 0]
    /\ mqtt_command = "none"
    /\ nextOp = 1
    /\ timers = 0

\* MQTTRuntime.on_message: a command arrived and the lock was obtained
MqttMessage ==
    /\ protocol # "none"
    /\ tpc["mqtt"] = "idle"
    /\ Enter("mqtt")
    /\ mqtt_command' \in {"ARM_AWAY", "PANIC", "UNKNOWN"}
    /\ lastIO' = NoIO
    /\ lastExit' = NoExit
    /\ UNCHANGED <<protocol, top, nextOp, timers, serverVars>>

\* status_polling_thread: the sleep ended and the lock was obtained
PollTick ==
    /\ protocol # "none"
    /\ tpc["poll"] = "idle"
    /\ Enter("poll")
    /\ lastIO' = NoIO
    /\ lastExit' = NoExit
    /\ UNCHANGED <<protocol, top, mqtt_command, nextOp, timers, serverVars>>

\* the Timer of _schedule_siren_off ran _safe_turn_off, which got the lock
SirenTimerFire ==
    /\ timers > 0
    /\ tpc["sirenoff"] = "idle"
    /\ Enter("sirenoff")
    /\ timers' = timers - 1
    /\ lastIO' = NoIO
    /\ lastExit' = NoExit
    /\ UNCHANGED <<protocol, top, mqtt_command, nextOp, serverVars>>

\* the receptorip sidecar printed a line (AMT8000 only) and
\* _process_receptorip_output got the lock
SidecarLine ==
    /\ protocol = "amt8000"
    /\ tpc["sidecar"] = "idle"
    /\ Enter("sidecar")
    /\ lastIO' = NoIO
    /\ lastExit' = NoExit
    /\ UNCHANGED <<protocol, top, mqtt_command, nextOp, timers, serverVars>>

\* a thread blocked in threading.Lock.acquire() gets the lock: the
\* post-connect poll thread, and the sidecar reader at its second block
Acquire(t) ==
    /\ tpc[t] \in {"acquire", "acquire2"}
    /\ alarm_lock = "free"
    /\ tpc[t] = "acquire" => nextOp <= MaxOps
    /\ alarm_lock' = t
    /\ tpc' = [tpc EXCEPT ![t] = IF tpc[t] = "acquire" THEN "cs" ELSE "cs2"]
    /\ lastIO' = NoIO
    /\ lastExit' = NoExit
    /\ UNCHANGED <<protocol, top, mqtt_command, nextOp, timers, serverVars>>

\* the handler calls as they would be without the _ensure_connected() check
Dispatch_unchecked(t) ==
    /\ protocol = "isecnet"
    /\ tpc[t] = "cs"
    /\ IF t = "mqtt" /\ mqtt_command = "UNKNOWN"
         THEN /\ Release(t)
              /\ lastExit' = Returned(t, "unknown")
              /\ UNCHANGED <<cpc, nextOp>>
         ELSE /\ tpc' = [tpc EXCEPT ![t] = "await"]
              /\ top' = [top EXCEPT ![t] = nextOp]
              /\ nextOp' = nextOp + 1
              /\ cpc' = [cpc EXCEPT ![nextOp] = "submitted"]
              /\ lastExit' = NoExit
              /\ UNCHANGED <<alarm_lock, mqtt_command>>
    /\ lastIO' = NoIO
    /\ UNCHANGED <<protocol, timers, conn, connection_id, pending_response,
                   fut, cres, cwait, delayed, panelRecv, loop_running>>

\* ISECNet handler, holding the lock: handle_command / poll_status /
\* _safe_turn_off check _ensure_connected() and return when no panel is
\* connected, and handle_command returns on a token it does not know;
\* otherwise _send_command submits AMTServer.send_command to the server
\* loop (run_coroutine_threadsafe) and blocks in future.result(10).
Dispatch(t) ==
    /\ protocol = "isecnet"
    /\ tpc[t] = "cs"
    /\ IF connection_id = 0 \/ (t = "mqtt" /\ mqtt_command = "UNKNOWN")
         THEN /\ Release(t)
              /\ lastExit' = Returned(t, IF connection_id = 0 THEN "noconnection"
                                         ELSE "unknown")
              /\ UNCHANGED <<cpc, nextOp>>
         ELSE /\ tpc' = [tpc EXCEPT ![t] = "await"]
              /\ top' = [top EXCEPT ![t] = nextOp]
              /\ nextOp' = nextOp + 1
              /\ cpc' = [cpc EXCEPT ![nextOp] = "submitted"]
              /\ lastExit' = NoExit
              /\ UNCHANGED <<alarm_lock, mqtt_command>>
    /\ lastIO' = NoIO
    /\ UNCHANGED <<protocol, timers, conn, connection_id, pending_response,
                   fut, cres, cwait, delayed, panelRecv, loop_running>>

\* The outcome of a finished send_command is kept while a thread is still to
\* read it; after that only whether it timed out, and only until the
\* panel's answer to it has been read.
Settle(results, pcs, tops, recv) ==
    [o \in Ops |->
        IF pcs[o] = "done" /\ (\A t \in Threads : tops[t] # o)
          THEN (IF o \in recv /\ results[o] = "timeout" THEN "timeout" ELSE "over")
          ELSE results[o]]

\* future.result() returns the response or raises what the coroutine
\* raised.  handle_command("PANIC") goes on to _schedule_siren_off(30.0)
\* only when _send_command returned.  Every path leaves the with block.
AwaitResult(t) ==
    /\ tpc[t] = "await"
    /\ cpc[top[t]] = "done"
    /\ timers' = IF t = "mqtt" /\ mqtt_command = "PANIC"
                    /\ cres[top[t]] = "response"
                 THEN timers + 1 ELSE timers
    /\ Release(t)
    /\ cres' = Settle(cres, cpc, top', panelRecv)
    /\ lastIO' = NoIO
    /\ lastExit' = IF cres[top[t]] = "response" THEN Returned(t, "response")
                    ELSE Failed(t, cres[top[t]])
    /\ UNCHANGED <<protocol, nextOp, conn, connection_id, pending_response,
                   fut, cpc, cwait, delayed, panelRecv, loop_running>>

\* future.result(timeout=10) gives up before the coroutine finished.  The
\* coroutine's own wait lasts RESPONSE_TIMEOUT = 8 s from the end of
\* drain(), so this needs the drain to have been suspended, or the loop to
\* have been stopped.  The coroutine is not cancelled and goes on in the
\* server loop while that runs.
CallerTimeout(t) ==
    /\ tpc[t] = "await"
    /\ \/ cpc[top[t]] \in {"drain", "wait", "expired"} /\ delayed[top[t]]
       \/ cpc[top[t]] # "done" /\ ~loop_running
    /\ Release(t)
    /\ lastIO' = NoIO
    /\ lastExit' = Failed(t, "resulttimeout")
    /\ UNCHANGED <<protocol, nextOp, timers, serverVars>>

\* AMT8000 handler, holding the lock: connect_and_auth_alarm() and the
\* client call (or the failure of either) on the bridge's own socket, each
\* bounded by the socket timeout; then the with block ends.
LegacyPanelAccess(t) ==
    /\ protocol = "amt8000"
    /\ t \in {"mqtt", "poll"}
    /\ tpc[t] = "cs"
    /\ Release(t)
    /\ lastIO' = NoIO
    /\ lastExit' = NoExit
    /\ UNCHANGED <<protocol, nextOp, timers, serverVars>>

\* _process_receptorip_output, first with block: the line is handled and
\* zone_states mutated; the block ends, and a publish is due or not.
SidecarHandle ==
    /\ protocol = "amt8000"
    /\ tpc["sidecar"] = "cs"
    /\ \E publish_required \in BOOLEAN :
         LET after == sidecar_after_line(publish_required)
         IN  /\ alarm_lock' = after.lock
             /\ tpc' = [tpc EXCEPT !["sidecar"] = after.pc]
    /\ lastIO' = NoIO
    /\ lastExit' = NoExit
    /\ UNCHANGED <<protocol, top, mqtt_command, nextOp, timers, serverVars>>

\* second with block: publish_zone_states()
SidecarPublish ==
    /\ protocol = "amt8000"
    /\ tpc["sidecar"] = "cs2"
    /\ Release("sidecar")
    /\ lastIO' = NoIO
    /\ lastExit' = NoExit
    /\ UNCHANGED <<protocol, nextOp, timers, serverVars>>

(***************************************************************************)
(* AMT server (isecnet/server/tcp_server.py): one panel connection, its    *)
(* read task, and the send_command coroutines submitted by the threads     *)
(***************************************************************************)
\* frames the panel sends; `re` is the command a response answers (0: none)
HeartbeatFrame ==
    [command |-> ISECNET_COMMAND_HEARTBEAT, content |-> <<>>, re |-> 0]

ConnectionInfoFrame ==
    [command |-> CONNECTION_INFO_COMMAND, content |-> <<69, 0, 18, 52, 86, 120>>,
     re |-> 0]

ResponseFrame(o) ==
    [command |-> ISECNET_COMMAND_MOBILE, content |-> <<ResponseCode_ACK>>, re |-> o]

InitServer ==
    /\ conn = "never"
    /\ connection_id = 0
    /\ pending_response = 0
    /\ fut = [o \in Ops |-> "none"]
    /\ cpc = [o \in Ops |-> "none"]
    /\ cres = [o \in Ops |-> "none"]
    /\ cwait = [o \in Ops |-> 0]
    /\ delayed = [o \in Ops |-> FALSE]
    /\ panelRecv = {}
    /\ loop_running = TRUE
    /\ lastIO = NoIO
    /\ lastExit = NoExit

\* A future is kept while the slot or a waiting coroutine refers to it.
Held(futs, slot, pcs, waits) ==
    [f \in Ops |->
        IF slot = f \/ (\E x \in Ops : pcs[x] = "wait" /\ waits[x] = f)
          THEN futs[f] ELSE "none"]

\* the coroutines waiting for future f resume with this outcome
Wake(f, result, slot, recv) ==
    LET woken == {x \in Ops : cpc[x] = "wait" /\ cwait[x] = f}
        pcs == [x \in Ops |-> IF x \in woken THEN "done" ELSE cpc[x]]
        waits == [x \in Ops |-> IF x \in woken THEN 0 ELSE cwait[x]]
    IN  /\ cpc' = pcs
        /\ cwait' = waits
        /\ delayed' = [x \in Ops |-> IF x \in woken THEN FALSE ELSE delayed[x]]
        /\ cres' = Settle([x \in Ops |-> IF x \in woken THEN result ELSE cres[x]],
                          pcs, top, recv)
        /\ fut' = Held(fut, slot, pcs, waits)

\* the coroutine of command o ends with this outcome
Finish(o, result) ==
    /\ cpc' = [cpc EXCEPT ![o] = "done"]
    /\ cres' = Settle([cres EXCEPT ![o] = result], cpc', top, panelRecv)
    /\ cwait' = [cwait EXCEPT ![o] = 0]
    /\ delayed' = [delayed EXCEPT ![o] = FALSE]

\* _handle_client up to its read loop: the connection is registered and the
\* on_connect callbacks run (_on_connect stores the id and starts the
\* post-connect poll thread).
PanelConnect ==
    /\ protocol = "isecnet"
    /\ loop_running
    /\ conn = "never"
    /\ tpc' = [tpc EXCEPT !["postconnect"] = poll_status_after_connect_entry]
    /\ conn' = "up"
    /\ connection_id' = 1
    /\ lastIO' = NoIO
    /\ lastExit' = NoExit
    /\ UNCHANGED <<protocol, alarm_lock, top, mqtt_command, nextOp, timers,
                   pending_response, fut, cpc, cres, cwait, delayed, panelRecv,
                   loop_running>>

\* the read loop ends (EOF or error); finally: the connection is removed,
\* the on_disconnect callbacks run (_on_disconnect clears the id), the
\* writer is closed.
PanelDisconnect ==
    /\ loop_running
    /\ conn = "up"
    /\ conn' = "closed"
    /\ connection_id' = 0
    /\ panelRecv' = {}
    /\ cres' = Settle(cres, cpc, top, {})
    /\ lastIO' = NoIO
    /\ lastExit' = NoExit
    /\ UNCHANGED <<threadVars, pending_response, fut, cpc, cwait, delayed,
                   loop_running>>

\* the flag as it would be if the 0x94 branch did not set it
is_auto_handled_heartbeat_only(frame) ==
    is_heartbeat(frame) /\ auto_ack_heartbeat

\* _handle_client, the flag set by the two auto-ack branches
is_auto_handled(frame) ==
    \/ (is_heartbeat(frame) /\ auto_ack_heartbeat)
    \/ (frame.command = CONNECTION_INFO_COMMAND /\ auto_ack_connection)

\* _handle_heartbeat / _handle_connection_info: the bytes written back
auto_ack_bytes == ISECNetFrame_build(ISECNetFrame_create_simple_ack)

\* the waiter of the command a frame answers has already timed out
IsLate(frame) ==
    /\ frame.re \in Ops
    /\ (cpc[frame.re] = "expired" \/ cres[frame.re] = "timeout")

\* _handle_client, one iteration of `for frame in frames`: auto-acks, then
\* the pending_response slot, else the on_frame callbacks.
ReadFrame(frame, recv) ==
    LET auto == is_auto_handled(frame)
        p == pending_response
    IN  /\ loop_running
        /\ conn = "up"
        /\ lastExit' = NoExit
        /\ lastIO' = [kind |-> "read", command |-> frame.command,
                      bytes |-> IF auto THEN auto_ack_bytes ELSE <<>>,
                      re |-> frame.re,
                      how |-> IF p # 0 /\ ~auto
                                THEN (IF fut[p] = "pending" THEN "completed"
                                      ELSE "dropped")
                              ELSE IF ~auto THEN "callbacks" ELSE "auto",
                      late |-> IsLate(frame)]
        /\ IF p # 0 /\ ~auto /\ fut[p] = "pending"
             THEN /\ pending_response' = 0
                  /\ Wake(p, "response", 0, recv)
             ELSE /\ cres' = Settle(cres, cpc, top, recv)
                  /\ UNCHANGED <<fut, pending_response, cpc, cwait, delayed>>
        /\ panelRecv' = recv
        /\ UNCHANGED <<threadVars, conn, connection_id, loop_running>>

\* the panel's keep-alive (bare 0xF7) is read
PanelHeartbeat == ReadFrame(HeartbeatFrame, panelRecv)

\* the panel's identification frame (0x94) is read
PanelIdent == ReadFrame(ConnectionInfoFrame, panelRecv)

\* the panel's answer to a command it received is read
PanelRespond(o) ==
    /\ o \in panelRecv
    /\ ReadFrame(ResponseFrame(o), panelRecv \ {o})

\* send_command / _send_and_wait up to the first suspension: ValueError when
\* the connection is not registered; otherwise a new future goes into the
\* slot, the frame is written, and drain() returns at once or suspends.
CoroStart(o) ==
    /\ loop_running
    /\ cpc[o] = "submitted"
    /\ lastExit' = NoExit
    /\ IF conn # "up"
         THEN /\ Finish(o, "valueerror")
              /\ lastIO' = NoIO
              /\ UNCHANGED <<pending_response, fut, panelRecv>>
         ELSE \E suspended \in BOOLEAN :
                LET pcs == [cpc EXCEPT ![o] = IF suspended THEN "drain" ELSE "wait"]
                    waits == [cwait EXCEPT ![o] = IF suspended THEN 0 ELSE o]
                IN  /\ pending_response' = o
                    /\ fut' = Held([fut EXCEPT ![o] = "pending"], o, pcs, waits)
                    /\ lastIO' = [kind |-> "send",
                                  command |-> ISECNET_COMMAND_MOBILE,
                                  bytes |-> CommandBytes[KindOf(o)],
                                  re |-> o, how |-> "none", late |-> FALSE]
                    /\ panelRecv' = panelRecv \cup {o}
                    /\ cpc' = pcs
                    /\ cwait' = waits
                    /\ delayed' = [delayed EXCEPT ![o] = suspended]
                    /\ UNCHANGED cres
    /\ UNCHANGED <<threadVars, conn, connection_id, loop_running>>

\* drain() returns (or raises on a lost connection); wait_for is then given
\* whatever connection.pending_response holds now.
DrainResume(o) ==
    /\ loop_running
    /\ cpc[o] = "drain"
    /\ LET p == pending_response
       IN  IF conn # "up" THEN Finish(o, "connerror")
           ELSE IF p = 0 THEN Finish(o, "typeerror")
           ELSE IF fut[p] = "cancelled" THEN Finish(o, "cancelled")
           ELSE /\ cpc' = [cpc EXCEPT ![o] = "wait"]
                /\ cwait' = [cwait EXCEPT ![o] = p]
                /\ UNCHANGED <<cres, delayed>>
    /\ lastIO' = NoIO
    /\ lastExit' = NoExit
    /\ UNCHANGED <<threadVars, conn, connection_id, pending_response, fut,
                   panelRecv, loop_running>>

\* wait_for's timeout expires: the awaited future is cancelled; any other
\* coroutine waiting for the same future ends cancelled
TimerFire(o) ==
    /\ loop_running
    /\ cpc[o] = "wait"
    /\ fut[cwait[o]] = "pending"
    /\ LET f == cwait[o]
           others == {x \in Ops : x # o /\ cpc[x] = "wait" /\ cwait[x] = f}
           pcs == [x \in Ops |-> IF x = o THEN "expired"
                                 ELSE IF x \in others THEN "done" ELSE cpc[x]]
           waits == [x \in Ops |-> IF x \in others THEN 0 ELSE cwait[x]]
       IN  /\ cpc' = pcs
           /\ cwait' = waits
           /\ delayed' = [x \in Ops |-> IF x \in others THEN FALSE ELSE delayed[x]]
           /\ cres' = Settle([x \in Ops |-> IF x \in others THEN "cancelled"
                                            ELSE cres[x]], pcs, top, panelRecv)
           /\ fut' = Held([fut EXCEPT ![f] = "cancelled"], pending_response,
                          pcs, waits)
    /\ lastIO' = NoIO
    /\ lastExit' = NoExit
    /\ UNCHANGED <<threadVars, conn, connection_id, pending_response,
                   panelRecv, loop_running>>

\* except asyncio.TimeoutError: the slot is set to None, TimeoutError raised
TimeoutResume(o) ==
    /\ loop_running
    /\ cpc[o] = "expired"
    /\ pending_response' = 0
    /\ Finish(o, "timeout")
    /\ fut' = Held(fut, 0, cpc', cwait')
    /\ lastIO' = NoIO
    /\ lastExit' = NoExit
    /\ UNCHANGED <<threadVars, conn, connection_id, panelRecv, loop_running>>

\* ISECNetProtocolHandler.shutdown(): AMTServer.stop() closes the
\* connections, the loop is stopped, server, loop and connection_id are
\* set to None.  It does not take the bridge mutex.  What the loop had not
\* yet run stays where it was.
shutdown ==
    /\ protocol = "isecnet"
    /\ loop_running
    /\ loop_running' = FALSE
    /\ conn' = IF conn = "up" THEN "closed" ELSE conn
    /\ connection_id' = 0
    /\ panelRecv' = {}
    /\ cres' = Settle(cres, cpc, top, {})
    /\ lastIO' = NoIO
    /\ lastExit' = NoExit
    /\ UNCHANGED <<threadVars, pending_response, fut, cpc, cwait, delayed>>

(***************************************************************************)
(* ISECNet frame round trip: ISECNetFrame(command, content).build() given  *)
(* to ISECNetFrame.parse                                                   *)
(***************************************************************************)
MaxNetContentLen == 2

\* a content length near the largest the length byte can describe
LongContentLen == 253

\* command and content bytes: zero, the heartbeat byte, the ISECMobile
\* command, the ACK code and 0xFF
NetBytes == {0, 233, 247, 254, 255}

\* contents of up to MaxNetContentLen bytes, and long ones of one byte value
NetContents ==
    SeqsUpTo(NetBytes, MaxNetContentLen)
        \cup {[i \in 1 .. n |-> b] : n \in {LongContentLen - 1, LongContentLen},
                                     b \in {0, 247}}

InitNet ==
    /\ nInput \in [command : NetBytes, content : NetContents]
    /\ npc = "start"
    /\ nBytes = <<>>
    /\ nParsed = NoFrame

IdleNet ==
    /\ nInput = [command |-> 0, content |-> <<>>]
    /\ npc = "start"
    /\ nBytes = <<>>
    /\ nParsed = NoFrame

\* ISECNetFrame(command=..., content=...).build()
NetBuild ==
    /\ npc = "start"
    /\ nBytes' = ISECNetFrame_build(ISECNetFrame(nInput.command, nInput.content))
    /\ npc' = "built"
    /\ UNCHANGED <<nInput, nParsed>>

\* ISECNetFrame.parse(built); an ISECNetError leaves NoFrame
NetParse ==
    /\ npc = "built"
    /\ nParsed' = ISECNetFrame_try_parse(nBytes)
    /\ npc' = "parsed"
    /\ UNCHANGED <<nInput, nBytes>>

(***************************************************************************)
(* Streaming reader fed with a concatenation of well-formed frames and     *)
(* bare heartbeats                                                         *)
(***************************************************************************)
MaxItems == 3

\* a bare 0xF7, and wrapped frames: ACK and NACK responses, an empty
\* content, contents and a command holding the heartbeat byte
WellFormedItems ==
    {[bare |-> TRUE, frame |-> ISECNetFrame(ISECNET_COMMAND_HEARTBEAT, <<>>)]}
    \cup {[bare |-> FALSE, frame |-> f] :
            f \in {ISECNetFrame(ISECNET_COMMAND_MOBILE, <<>>),
                   ISECNetFrame(ISECNET_COMMAND_MOBILE, <<ResponseCode_ACK>>),
                   ISECNetFrame(ISECNET_COMMAND_MOBILE,
                                <<ISECNET_COMMAND_HEARTBEAT>>),
                   ISECNetFrame(ISECNET_COMMAND_HEARTBEAT,
                                <<ISECNET_COMMAND_HEARTBEAT, 1>>)}}

\* the bytes of one item on the wire
ItemBytes(item) ==
    IF item.bare THEN <<ISECNET_COMMAND_HEARTBEAT>>
    ELSE ISECNetFrame_build(item.frame)

RECURSIVE Concat(_)
\* b"".join(...) of the items' bytes
Concat(its) ==
    IF its = <<>> THEN <<>> ELSE ItemBytes(Head(its)) \o Concat(Tail(its))

InitWellFormed ==
    /\ items \in SeqsUpTo(WellFormedItems, MaxItems)
    /\ stream = Concat(items)
    /\ fed = 0
    /\ nfeeds = 0
    /\ buffer = <<>>
    /\ frames = <<>>

(***************************************************************************)
(* AMTServer lifecycle (isecnet/server/tcp_server.py start, stop,          *)
(* _handle_client; connection_manager.py add, remove, close_all)           *)
(***************************************************************************)
MaxConns == 2

ConnIds == 1 .. MaxConns

\* no stop() has returned yet
NoStop == [kind |-> "none", is_running |-> FALSE, registry |-> {}]

\* AMTServer() as constructed: not running, no listener, nothing registered
InitLife ==
    /\ srv_running = FALSE
    /\ listener = "none"
    /\ connections = {}
    /\ hpc = [c \in ConnIds |-> "none"]
    /\ writer = [c \in ConnIds |-> "none"]
    /\ cleanup = [c \in ConnIds |-> <<>>]
    /\ stop_pc = "idle"
    /\ stop_todo = {}
    /\ stop_result = NoStop
    /\ handler_connection_id = 0

\* start(): RuntimeError when already running, else the listener is opened
start ==
    /\ stop_pc = "idle"
    /\ ~srv_running
    /\ listener' = "open"
    /\ srv_running' = TRUE
    /\ stop_result' = NoStop
    /\ UNCHANGED <<connections, hpc, writer, cleanup, stop_pc, stop_todo,
                   handler_connection_id>>

\* asyncio accepts a connection on the open listener and creates the task
\* that will run _handle_client for it
Accept(c) ==
    /\ listener = "open"
    /\ hpc[c] = "none"
    /\ hpc' = [hpc EXCEPT ![c] = "accepted"]
    /\ writer' = [writer EXCEPT ![c] = "open"]
    /\ UNCHANGED <<srv_running, listener, connections, cleanup, stop_pc,
                   stop_todo, stop_result, handler_connection_id>>

\* the handler's _on_disconnect callback: the id is cleared when it is the
\* id of the connection that ended
on_disconnect(id, c) == IF id = c THEN 0 ELSE id

\* _handle_client up to its first read: the connection is added to the
\* registry and the on_connect callbacks run (the handler's _on_connect
\* stores the id of the connection)
HandleClientStart(c) ==
    /\ hpc[c] = "accepted"
    /\ connections' = connections \cup {c}
    /\ handler_connection_id' = c
    /\ hpc' = [hpc EXCEPT ![c] = "reading"]
    /\ UNCHANGED <<srv_running, listener, writer, cleanup, stop_pc, stop_todo,
                   stop_result>>

\* the read loop ends (EOF, read error or cancellation) and the finally
\* block begins: ConnectionManager.remove(connection_id)
ReadLoopEnd(c) ==
    /\ hpc[c] = "reading"
    /\ connections' = connections \ {c}
    /\ cleanup' = [cleanup EXCEPT ![c] = Append(@, "remove")]
    /\ hpc' = [hpc EXCEPT ![c] = "callbacks"]
    /\ UNCHANGED <<srv_running, listener, writer, stop_pc, stop_todo, stop_result,
                   handler_connection_id>>

\* finally, `for callback in self._disconnect_callbacks: await callback(..)`
DisconnectCallbacks(c) ==
    /\ hpc[c] = "callbacks"
    /\ cleanup' = [cleanup EXCEPT ![c] = Append(@, IF c \in connections THEN "on_disconnect"
                                      ELSE "on_disconnect_unregistered")]
    /\ hpc' = [hpc EXCEPT ![c] = "closing"]
    /\ handler_connection_id' = on_disconnect(handler_connection_id, c)
    /\ UNCHANGED <<srv_running, listener, connections, writer, stop_pc,
                   stop_todo, stop_result>>

\* finally, `writer.close(); await writer.wait_closed()`
WriterClose(c) ==
    /\ hpc[c] = "closing"
    /\ writer' = [writer EXCEPT ![c] = "closed"]
    /\ cleanup' = [cleanup EXCEPT ![c] = Append(@, "close")]
    /\ hpc' = [hpc EXCEPT ![c] = "ended"]
    /\ UNCHANGED <<srv_running, listener, connections, stop_pc, stop_todo,
                   stop_result, handler_connection_id>>

\* asyncio.Server.wait_closed() has nothing to wait for: every accepted
\* connection's transport is closed
ServerDrained == \A c \in ConnIds : writer[c] # "open"

\* close_all after its loop, then the rest of stop(): the registry is
\* cleared and the listener closed.  wait_closed() returns at once, or (on
\* interpreters where it waits for the accepted connections) suspends.
StopCloseListener ==
    /\ connections' = {}
    /\ listener' = IF listener = "open" THEN "closed" ELSE listener
    /\ stop_todo' = {}
    /\ \/ /\ stop_pc' = "idle"
          /\ stop_result' = [kind |-> "returned", is_running |-> srv_running',
                              registry |-> connections']
       \/ /\ ~ServerDrained
          /\ stop_pc' = "wait_closed"
          /\ UNCHANGED stop_result
    /\ UNCHANGED <<hpc, writer, cleanup, handler_connection_id>>

\* close_all: `await connection.close()` for one connection of the list:
\* the writer is closed and wait_closed() suspends
StopCloseOne(todo) ==
    /\ \E c \in todo :
          /\ writer' = [writer EXCEPT ![c] = "closed"]
          /\ stop_todo' = todo \ {c}
    /\ stop_pc' = "close_all"
    /\ UNCHANGED <<listener, connections, hpc, cleanup, stop_result,
                   handler_connection_id>>

\* stop() up to its first suspension: nothing when not running; else
\* _running = False and close_all over list(self._connections.values())
stop ==
    /\ stop_pc = "idle"
    /\ IF ~srv_running
         THEN /\ stop_result' = [kind |-> "noop", is_running |-> srv_running,
                                  registry |-> connections]
              /\ UNCHANGED <<srv_running, listener, connections, hpc, writer,
                             cleanup, stop_pc, stop_todo, handler_connection_id>>
         ELSE /\ srv_running' = FALSE
              /\ IF connections = {} THEN StopCloseListener
                                      ELSE StopCloseOne(connections)

\* close_all resumes after a wait_closed()
StopResume ==
    /\ stop_pc = "close_all"
    /\ UNCHANGED srv_running
    /\ IF stop_todo = {} THEN StopCloseListener ELSE StopCloseOne(stop_todo)

\* asyncio.Server.wait_closed() returns; _server = None; stop() returns
StopReturn ==
    /\ stop_pc = "wait_closed"
    /\ ServerDrained
    /\ stop_pc' = "idle"
    /\ stop_result' = [kind |-> "returned", is_running |-> srv_running,
                        registry |-> connections]
    /\ UNCHANGED <<srv_running, listener, connections, hpc, writer, cleanup,
                   stop_todo, handler_connection_id>>

(***************************************************************************)
(* Legacy client (client.py Client) and legacy handler                     *)
(* (protocol_handlers/amt8000.py AMT8000ProtocolHandler)                   *)
(***************************************************************************)
MaxSockets == 3

\* what self._socket.send / recv do: "ok", or the exception they raise
SocketErrors == {"timeout", "reset", "brokenpipe", "oserror"}

SocketOutcomes == {"ok"} \cup SocketErrors

\* Client(): no socket, not connected.  socket 0 is None; opened counts the
\* sockets created so far, failed holds those a command had an error on.
NewClient == [is_connected |-> FALSE, socket |-> 0, opened |-> 0, failed |-> {}]

\* Client.connect(): an existing connection is used again; otherwise a new
\* socket is created and connected, or CommunicationError is raised
Client_connect(cl, ok) ==
    IF cl.is_connected /\ cl.socket # 0
      THEN [client |-> cl, raised |-> "none"]
    ELSE IF ok
      THEN [client |-> [cl EXCEPT !.socket = cl.opened + 1,
                                  !.opened = cl.opened + 1,
                                  !.is_connected = TRUE],
            raised |-> "none"]
    ELSE [client |-> [cl EXCEPT !.socket = 0,
                                !.opened = cl.opened + 1,
                                !.is_connected = FALSE],
          raised |-> "CommunicationError"]

\* Client.close()
Client_close(cl) == [cl EXCEPT !.socket = 0, !.is_connected = FALSE]

\* _send_command_and_receive_response as it would be if an error left the
\* connection flag and the socket as they were
Client_send_command_and_receive_response_keep(cl, ok, io) ==
    LET c == IF ~cl.is_connected \/ cl.socket = 0
               THEN Client_connect(cl, ok)
               ELSE [client |-> cl, raised |-> "none"]
    IN  IF c.raised # "none"
          THEN [client |-> c.client, raised |-> c.raised, error |-> "none"]
        ELSE IF io = "ok"
          THEN [client |-> c.client, raised |-> "none", error |-> "none"]
        ELSE [client |-> [c.client EXCEPT !.failed = @ \cup {c.client.socket}],
              raised |-> "CommunicationError", error |-> io]

\* Client._send_command_and_receive_response: connect() when there is no
\* connection, then send and recv; any socket error marks the client
\* disconnected, forgets the socket and raises CommunicationError
Client_send_command_and_receive_response(cl, ok, io) ==
    LET c == IF ~cl.is_connected \/ cl.socket = 0
               THEN Client_connect(cl, ok)
               ELSE [client |-> cl, raised |-> "none"]
    IN  IF c.raised # "none"
          THEN [client |-> c.client, raised |-> c.raised, error |-> "none"]
        ELSE IF io = "ok"
          THEN [client |-> c.client, raised |-> "none", error |-> "none"]
        ELSE [client |-> [c.client EXCEPT !.is_connected = FALSE,
                                          !.socket = 0,
                                          !.failed = @ \cup {c.client.socket}],
              raised |-> "CommunicationError", error |-> io]

\* what the panel answers to the authentication: accepted (0), rejected
\* (1..4: AuthError), or an answer auth() cannot read (CommunicationError)
AuthAnswers == {"accepted", "rejected", "unreadable"}

\* Client.auth(password) after its request was sent and answered
Client_auth(cl, ok, io, answer) ==
    LET r == Client_send_command_and_receive_response(cl, ok, io)
    IN  IF r.raised # "none" THEN r
        ELSE [client |-> r.client,
              raised |-> IF answer = "accepted" THEN "none"
                         ELSE IF answer = "rejected" THEN "AuthError"
                         ELSE "CommunicationError",
              error |-> "none"]

\* the commands given to the handler, and the periodic poll
LegacyCommands == {"ARM_AWAY", "DISARM", "PANIC", "ARM_HOME", "UNKNOWN", "poll"}

\* handle_command: the request of a command; "none" for the commands that
\* are refused or not recognised.  poll_status asks for the status.
LegacyRequest(command) ==
    IF command = "ARM_AWAY" THEN "arm"
    ELSE IF command = "DISARM" THEN "disarm"
    ELSE IF command = "PANIC" THEN "panic"
    ELSE IF command = "poll" THEN "status"
    ELSE "none"

NoCall == [call |-> "none", error |-> "none", before |-> NewClient]

InitLegacy ==
    /\ client = NewClient
    /\ lastCall = NoCall
    /\ lpc = "idle"
    /\ lcommand = "none"
    /\ attempt = 1
    /\ tries = <<>>
    /\ requests = <<>>

\* the client's user calls connect()
ClientConnect(ok) ==
    /\ lpc = "idle"
    /\ client.opened < MaxSockets
    /\ client' = Client_connect(client, ok).client
    /\ lastCall' = [call |-> "connect", error |-> "none", before |-> client]
    /\ UNCHANGED <<lpc, lcommand, attempt, tries, requests>>

\* the client's user calls a command (status, arm_system, ...)
ClientCommand(ok, io) ==
    /\ lpc = "idle"
    /\ client.opened < MaxSockets
    /\ LET r == Client_send_command_and_receive_response(client, ok, io)
       IN  /\ client' = r.client
           /\ lastCall' = [call |-> "command", error |-> r.error, before |-> client]
    /\ UNCHANGED <<lpc, lcommand, attempt, tries, requests>>

\* the client's user calls close()
ClientClose ==
    /\ lpc = "idle"
    /\ client.socket # 0
    /\ client' = Client_close(client)
    /\ lastCall' = [call |-> "close", error |-> "none", before |-> client]
    /\ UNCHANGED <<lpc, lcommand, attempt, tries, requests>>

\* handle_command(command) or poll_status() is entered
HandlerBegin(command) ==
    /\ lpc = "idle"
    /\ lpc' = "auth"
    /\ lcommand' = command
    /\ attempt' = 1
    /\ tries' = <<>>
    /\ requests' = <<>>
    /\ lastCall' = NoCall
    /\ UNCHANGED client

\* connect_and_auth_alarm as it would be with a fourth attempt
connect_and_auth_alarm_four(n, succeeded) ==
    IF succeeded THEN "act"
    ELSE IF n < 4 THEN "auth"
    ELSE "done"

\* connect_and_auth_alarm, where it goes after attempt n: on to the command
\* after a success, to the next attempt after a failure of attempts 1 and
\* 2, and back with False after the failure of attempt 3
connect_and_auth_alarm(n, succeeded) ==
    IF succeeded THEN "act"
    ELSE IF n < 3 THEN "auth"
    ELSE "done"

\* one turn of the loop of connect_and_auth_alarm: connect(), then auth()
HandlerAttempt(ok, io, answer) ==
    /\ lpc = "auth"
    /\ client.opened < MaxSockets
    /\ LET c == Client_connect(client, ok)
           a == IF c.raised # "none" THEN c
                ELSE Client_auth(c.client, ok, io, answer)
           succeeded == a.raised = "none"
       IN  /\ client' = a.client
           /\ tries' = Append(tries, IF succeeded THEN "ok" ELSE a.raised)
           /\ lpc' = connect_and_auth_alarm(attempt, succeeded)
           /\ attempt' = IF succeeded THEN attempt ELSE attempt + 1
    /\ UNCHANGED <<lastCall, lcommand, requests>>

\* handle_command after the authentication: refused and unknown commands
\* return, the others call their action; poll_status calls status().  A
\* CommunicationError of the call is logged.
HandlerAct(io) ==
    /\ lpc = "act"
    /\ client.opened < MaxSockets
    /\ IF LegacyRequest(lcommand) = "none"
         THEN UNCHANGED <<client, requests>>
         ELSE /\ client' = Client_send_command_and_receive_response(client, TRUE, io).client
              /\ requests' = Append(requests, LegacyRequest(lcommand))
    /\ lpc' = "done"
    /\ UNCHANGED <<lastCall, lcommand, attempt, tries>>

\* handle_command or poll_status returns
HandlerReturn ==
    /\ lpc = "done"
    /\ lpc' = "idle"
    /\ UNCHANGED <<client, lastCall, lcommand, attempt, tries, requests>>

(***************************************************************************)
(* Signal handler (addon_main.py handle_shutdown)                          *)
(***************************************************************************)
\* on_connect published availability "online", retained; the flag is clear
\* and the MQTT loop runs
InitDown ==
    /\ shutdown_event = FALSE
    /\ availability = [payload |-> "online", retain |-> TRUE]
    /\ mqtt_loop = "running"
    /\ down = <<>>

\* handle_shutdown as it would be with the server stopped before the MQTT
\* loop
handle_shutdown_server_first(n) ==
    IF n = 1 THEN "flag"
    ELSE IF n = 2 THEN "offline"
    ELSE IF n = 3 THEN "handler"
    ELSE IF n = 4 THEN "loop_stop"
    ELSE "exit"

\* handle_shutdown, its n-th statement: shutdown_event.set(), the publish
\* of "offline", mqtt_client.loop_stop(), stop_isecnet_server(), sys.exit
handle_shutdown(n) ==
    IF n = 1 THEN "flag"
    ELSE IF n = 2 THEN "offline"
    ELSE IF n = 3 THEN "loop_stop"
    ELSE IF n = 4 THEN "handler"
    ELSE "exit"

\* shutdown_event.set()
ShutdownFlag ==
    /\ protocol # "none"
    /\ handle_shutdown(Len(down) + 1) = "flag"
    /\ shutdown_event' = TRUE
    /\ down' = Append(down, "flag")
    /\ UNCHANGED <<availability, mqtt_loop>>

\* mqtt_client.publish(AVAILABILITY_TOPIC, "offline", retain=True)
PublishOffline ==
    /\ handle_shutdown(Len(down) + 1) = "offline"
    /\ availability' = [payload |-> "offline", retain |-> TRUE]
    /\ down' = Append(down, "offline")
    /\ UNCHANGED <<shutdown_event, mqtt_loop>>

\* mqtt_client.loop_stop(): the loop thread is joined, which waits for the
\* on_message callback it is running
MqttLoopStop ==
    /\ handle_shutdown(Len(down) + 1) = "loop_stop"
    /\ tpc["mqtt"] = "idle"
    /\ mqtt_loop' = "stopped"
    /\ down' = Append(down, "loop_stop")
    /\ UNCHANGED <<shutdown_event, availability>>

\* stop_isecnet_server(): the server is stopped and the loop told to stop
HandlerShutdown ==
    /\ handle_shutdown(Len(down) + 1) = "handler"
    /\ shutdown
    /\ down' = Append(down, "handler")
    /\ UNCHANGED <<shutdown_event, availability, mqtt_loop>>

(***************************************************************************)
(* Polling thread (addon_main.py status_polling_thread, _poll_isecnet_once)*)
(***************************************************************************)
MaxPolls == 3

\* what one poll meets: no tracked connection, the future's timeout, a
\* CommunicationError or AuthError, any other exception of the calls it
\* makes, an empty response, a NACK, a payload no status parses from, a
\* status
PollEvents ==
    {"no_connection", "timeout", "CommunicationError", "AuthError",
     "other_exception", "empty", "nack", "unparseable", "status"}

\* the exception a poll event raises inside the poll, "none" when it
\* raises nothing
Raised(what) ==
    CASE what = "timeout"            -> "TimeoutError"
      [] what = "CommunicationError" -> "CommunicationError"
      [] what = "AuthError"          -> "AuthError"
      [] what = "other_exception"    -> "Exception"
      [] OTHER                       -> "none"

\* _poll_isecnet_once: returns when there is no connection; everything
\* after that is inside try ... except Exception, which logs
poll_isecnet_once(what) ==
    IF what = "no_connection" THEN [how |-> "returned", what |-> what]
    ELSE IF Raised(what) # "none" THEN [how |-> "logged", what |-> Raised(what)]
    ELSE [how |-> "returned", what |-> what]

\* the legacy branch of status_polling_thread: without authentication the
\* poll is skipped; with it, the first statement after the log line reads
\* the local `status` before its assignment, which raises
\* UnboundLocalError, and the except clause names CommunicationError and
\* AuthError only
poll_legacy(auth_ok, what) ==
    IF ~auth_ok THEN [how |-> "returned", what |-> "skipped"]
    ELSE IF "UnboundLocalError" \in {"CommunicationError", "AuthError"}
         THEN [how |-> "logged", what |-> "UnboundLocalError"]
         ELSE [how |-> "raised", what |-> "UnboundLocalError"]

IdlePoll ==
    /\ poll_protocol = "none"
    /\ poll_pc = "returned"
    /\ poll_log = <<>>

\* the thread is started at the top of its loop
InitPoll ==
    /\ poll_protocol \in {"isecnet", "legacy"}
    /\ poll_pc = "while"
    /\ poll_log = <<>>

\* while not shutdown_event.is_set(): the loop is entered or left
PollWhile ==
    /\ poll_pc = "while"
    /\ poll_pc' = IF shutdown_event THEN "returned" ELSE "with"
    /\ UNCHANGED <<poll_protocol, poll_log, shutdown_event>>

\* with alarm_lock: one poll; an exception it does not catch leaves the
\* with block, the loop and the thread
PollOnce(auth_ok, what) ==
    /\ poll_pc = "with"
    /\ Len(poll_log) < MaxPolls
    /\ LET r == IF poll_protocol = "legacy" THEN poll_legacy(auth_ok, what)
                ELSE poll_isecnet_once(what)
       IN /\ poll_log' = Append(poll_log, r)
          /\ poll_pc' = IF r.how = "raised" THEN "raised" ELSE "wait"
    /\ UNCHANGED <<poll_protocol, shutdown_event>>

\* shutdown_event.wait(POLLING_INTERVAL_MINUTES * 60) returned, on the
\* flag or on the timeout
PollWait ==
    /\ poll_pc = "wait"
    /\ poll_pc' = "while"
    /\ UNCHANGED <<poll_protocol, poll_log, shutdown_event>>

\* the signal handler set the flag
PollShutdownEvent ==
    /\ poll_protocol # "none"
    /\ ~shutdown_event
    /\ shutdown_event' = TRUE
    /\ UNCHANGED pollVars

(***************************************************************************)
(* Writes to one connection (tcp_server.py _handle_heartbeat,              *)
(* _handle_connection_info, _send_and_wait; protocol_handlers/isecnet.py   *)
(* _send_command)                                                          *)
(***************************************************************************)
MaxWrites == 3

Writes == 1 .. MaxWrites

\* the threads that call _send_command: the MQTT callback, the polling
\* thread and the siren-off timer; "read" stands for the read task
Submitters == {"mqtt", "poll", "sirenoff"}

\* the frame of a write: the simple ACK of the read task, the status
\* request of the polling thread, the commands of the other threads
WriteBytes(t) ==
    IF t = "read" THEN auto_ack_bytes
    ELSE IF t = "poll" THEN CommandBytes["STATUS"]
    ELSE IF t = "sirenoff" THEN CommandBytes["SIREN_OFF"]
    ELSE CommandBytes["ARM_AWAY"]

\* the longest frame written
MaxFrameLen == Len(CommandBytes["STATUS"])

\* the bytes of write w, each tagged with the write it belongs to
Tagged(w, bytes) == [i \in 1 .. Len(bytes) |-> [w |-> w, b |-> bytes[i]]]

\* _send_command as it would be if it called the coroutine's write from
\* the thread it is called on
run_coroutine_threadsafe_direct(t) == t

\* _send_command: asyncio.run_coroutine_threadsafe(self.server.send_command
\* (...), self.loop): whatever thread calls it, the coroutine runs on the
\* thread of the server's event loop
run_coroutine_threadsafe(t) == "loop"

IdleWire ==
    /\ wpc = [w \in Writes |-> "done"]
    /\ wfrom = [w \in Writes |-> "none"]
    /\ wleft = [w \in Writes |-> <<>>]
    /\ wbuf = <<>>
    /\ wire = <<>>
    /\ wlog = <<>>

\* the groups of the polling thread and of the writer, idle
IdleMore == IdlePoll /\ IdleWire

\* a connection on which nothing has been written yet
InitWire ==
    /\ wpc = [w \in Writes |-> "idle"]
    /\ wfrom = [w \in Writes |-> "none"]
    /\ wleft = [w \in Writes |-> <<>>]
    /\ wbuf = <<>>
    /\ wire = <<>>
    /\ wlog = <<>>

\* _send_command on thread t: the coroutine is handed to the loop
Submit(w, t) ==
    /\ wpc[w] = "idle"
    /\ \A x \in Writes : x < w => wpc[x] # "idle"
    /\ wpc' = [wpc EXCEPT ![w] = "queued"]
    /\ wfrom' = [wfrom EXCEPT ![w] = t]
    /\ wleft' = [wleft EXCEPT ![w] = Tagged(w, WriteBytes(t))]
    /\ UNCHANGED <<wbuf, wire, wlog>>

\* the read task read a heartbeat or a 0x94 frame: _handle_heartbeat /
\* _handle_connection_info give the whole ACK frame to writer.write() and
\* suspend in drain()
AutoAck(w) ==
    /\ wpc[w] = "idle"
    /\ \A x \in Writes : x < w => wpc[x] # "idle"
    /\ \A x \in Writes : wfrom[x] = "read" => wpc[x] = "done"
    /\ wpc' = [wpc EXCEPT ![w] = "drain"]
    /\ wfrom' = [wfrom EXCEPT ![w] = "read"]
    /\ wbuf' = wbuf \o Tagged(w, WriteBytes("read"))
    /\ wlog' = Append(wlog, [w |-> w, by |-> "loop"])
    /\ UNCHANGED <<wleft, wire>>

\* _send_and_wait: connection.writer.write(data).  On the loop's thread
\* the call is one step of the loop, which runs nothing else until the
\* coroutine suspends in drain(): the whole frame goes into the buffer.
\* On any other thread nothing orders the call against the loop's steps:
\* its bytes reach the buffer n at a time.
CoroWrite(w, n) ==
    /\ wpc[w] \in {"queued", "writing"}
    /\ LET by == run_coroutine_threadsafe(wfrom[w])
           k == IF by = "loop" THEN Len(wleft[w]) ELSE n
       IN  /\ by = "loop" => n = 1
           /\ k <= Len(wleft[w])
           /\ wbuf' = wbuf \o SubSeq(wleft[w], 1, k)
           /\ wleft' = [wleft EXCEPT ![w] = SubSeq(@, k + 1, Len(@))]
           /\ wpc' = [wpc EXCEPT ![w] = IF k = Len(wleft[w]) THEN "drain"
                                        ELSE "writing"]
           /\ wlog' = IF wpc[w] = "queued"
                        THEN Append(wlog, [w |-> w, by |-> by]) ELSE wlog
    /\ UNCHANGED <<wfrom, wire>>

\* await connection.writer.drain() returns
Drain(w) ==
    /\ wpc[w] = "drain"
    /\ wpc' = [wpc EXCEPT ![w] = "done"]
    /\ UNCHANGED <<wfrom, wleft, wbuf, wire, wlog>>

\* the socket takes the first n bytes of the transport's buffer
SocketSend(n) ==
    /\ n <= Len(wbuf)
    /\ wire' = wire \o SubSeq(wbuf, 1, n)
    /\ wbuf' = SubSeq(wbuf, n + 1, Len(wbuf))
    /\ UNCHANGED <<wpc, wfrom, wleft, wlog>>

(***************************************************************************)
(* Responses (isecnet/protocol/responses.py, isecnet/const.py)             *)
(***************************************************************************)
MaxResponseLen == 2

\* is_ack / is_nack of const.py
is_ack(response_code) == response_code = ResponseCode_ACK

is_nack(response_code) == 224 <= response_code /\ response_code <= 234

\* the members of ResponseCode that are NACK codes
NackCodes == {224, 225, 226, 227, 228, 229, 230, 231, 232, 234}

\* the keys of RESPONSE_MESSAGES
RESPONSE_MESSAGES == {ResponseCode_ACK} \cup NackCodes

\* Response.from_isecnet_frame as it would be with the first byte looked at
\* before the length
Response_from_isecnet_frame_code_first(content) ==
    IF Len(content) = 0
      THEN [response_type |-> "unknown", code |-> 0, data |-> <<>>]
    ELSE LET code == content[1]
             data == Tail(content)
         IN  IF is_ack(code) THEN [response_type |-> "ack", code |-> code, data |-> data]
             ELSE IF is_nack(code)
               THEN [response_type |-> "nack", code |-> code, data |-> data]
             ELSE IF Len(content) >= 43
               THEN [response_type |-> "data", code |-> 0, data |-> content]
             ELSE [response_type |-> IF Len(data) > 0 THEN "data" ELSE "unknown",
                   code |-> code, data |-> data]

\* Response.from_isecnet_frame: type, code and data from the frame content
Response_from_isecnet_frame(content) ==
    IF Len(content) = 0
      THEN [response_type |-> "unknown", code |-> 0, data |-> <<>>]
    ELSE IF Len(content) >= 43
      THEN [response_type |-> "data", code |-> 0, data |-> content]
    ELSE LET code == content[1]
             data == Tail(content)
         IN  [response_type |-> IF is_ack(code) THEN "ack"
                                ELSE IF is_nack(code) THEN "nack"
                                ELSE IF Len(data) > 0 THEN "data"
                                ELSE "unknown",
              code |-> code, data |-> data]

\* Response.message: the text comes from RESPONSE_MESSAGES, or is the
\* fallback "Código desconocido: 0x.."
Response_message(response) ==
    IF response.response_type = "data" /\ Len(response.data) >= 43 THEN "data"
    ELSE IF response.code \in RESPONSE_MESSAGES THEN "table"
    ELSE "fallback"

\* Response.error_code: the ResponseCode member of a NACK (0: None)
Response_error_code(response) ==
    IF response.response_type = "nack"
            /\ response.code \in ({ResponseCode_ACK} \cup NackCodes)
      THEN response.code
      ELSE 0

\* first bytes around the ACK and NACK codes
ResponseBytes == {0, 223, 224, 229, 233, 234, 235, 254, 255}

\* contents up to MaxResponseLen bytes, and contents of 42, 43 and 44 bytes
\* that differ in their first byte
ResponseContents ==
    SeqsUpTo(ResponseBytes, MaxResponseLen)
    \cup {[i \in 1 .. n |-> IF i = 1 THEN b ELSE 0] :
            n \in {42, 43, 44}, b \in ResponseBytes}

IdleCall ==
    /\ callArg = <<>>
    /\ callpc = "idle"
    /\ callResult = <<>>

InitResponse ==
    /\ callArg \in ResponseContents
    /\ callpc = "start"
    /\ callResult = <<>>

\* Response.from_isecnet_frame(frame) with the message and error code read
ResponseClassify ==
    /\ callpc = "start"
    /\ LET response == Response_from_isecnet_frame(callArg)
       IN  callResult' = [response_type |-> response.response_type,
                          code |-> response.code,
                          data |-> response.data,
                          message |-> Response_message(response),
                          error_code |-> Response_error_code(response)]
    /\ callpc' = "returned"
    /\ UNCHANGED callArg

(***************************************************************************)
(* ISECNet status poll (protocol_handlers/isecnet.py poll_status,          *)
(* _parse_status, _publish_status; isecnet/protocol/commands/status.py)    *)
(***************************************************************************)
\* byte_val & (1 << bit_idx)
Bit(byte_val, bit_idx) == (byte_val \div (2 ^ bit_idx)) % 2 = 1

\* ZoneStatus._parse_bitmask: one zone per bit, least significant bit first
ZoneStatus_parse_bitmask(data, start_zone) ==
    {z \in start_zone .. (start_zone + 8 * Len(data) - 1) :
        Bit(data[((z - start_zone) \div 8) + 1], (z - start_zone) % 8)}

NoStatus == [kind |-> "none"]

\* central_datetime = None
NoDatetime == [year |-> 0, month |-> 0, day |-> 0, hour |-> 0, minute |-> 0]

\* calendar.monthrange as datetime's constructor uses it
days_in_month(year, month) ==
    IF month = 2
      THEN IF year % 4 = 0 /\ (year % 100 # 0 \/ year % 400 = 0) THEN 29 ELSE 28
    ELSE IF month \in {4, 6, 9, 11} THEN 30
    ELSE 31

\* datetime(...) as it would be with every month taken to have 31 days
datetime_any_month(year, month, day, hour, minute) ==
    IF /\ year >= 1 /\ year <= 9999
       /\ month >= 1 /\ month <= 12
       /\ day >= 1 /\ day <= 31
       /\ hour >= 0 /\ hour <= 23
       /\ minute >= 0 /\ minute <= 59
      THEN [year |-> year, month |-> month, day |-> day,
            hour |-> hour, minute |-> minute]
      ELSE NoDatetime

\* `try: central_datetime = datetime(year, month, day, hour, minute)
\*  except ValueError: central_datetime = None`
datetime(year, month, day, hour, minute) ==
    IF /\ year >= 1 /\ year <= 9999
       /\ month >= 1 /\ month <= 12
       /\ day >= 1 /\ day <= days_in_month(year, month)
       /\ hour >= 0 /\ hour <= 23
       /\ minute >= 0 /\ minute <= 59
      THEN [year |-> year, month |-> month, day |-> day,
            hour |-> hour, minute |-> minute]
      ELSE NoDatetime

\* CentralStatus.try_parse, the fields poll_status and _publish_status read
CentralStatus_try_parse(data) ==
    IF Len(data) # 54 THEN NoStatus
    ELSE [kind |-> "full",
          open_zones |-> ZoneStatus_parse_bitmask(SubSeq(data, 1, 8), 1),
          violated_zones |-> ZoneStatus_parse_bitmask(SubSeq(data, 9, 16), 1),
          partitions_enabled |-> data[27] = 1,
          all_armed |-> /\ Bit(data[28], 0) /\ Bit(data[28], 1)
                        /\ Bit(data[29], 0) /\ Bit(data[29], 1),
          armed |-> Bit(data[30], 3),
          siren_on |-> Bit(data[30], 1),
          central_datetime |->
              datetime(2000 + data[35], data[34], data[33], data[31], data[32])]

\* PartialCentralStatus.try_parse; partitions C and D are not in the 43
\* bytes and keep their default
PartialCentralStatus_try_parse(data) ==
    IF Len(data) # 43 THEN NoStatus
    ELSE [kind |-> "partial",
          open_zones |-> ZoneStatus_parse_bitmask(SubSeq(data, 1, 6), 1),
          violated_zones |-> ZoneStatus_parse_bitmask(SubSeq(data, 7, 12), 1),
          partitions_enabled |-> data[21] = 1,
          all_armed |-> FALSE,
          armed |-> Bit(data[23], 3),
          siren_on |-> Bit(data[23], 1),
          central_datetime |->
              datetime(2000 + data[28], data[27], data[26], data[24], data[25])]

\* _parse_status as it would be with the lengths taken as minimum lengths
parse_status_at_least(payload) ==
    IF Len(payload) >= 54 THEN CentralStatus_try_parse(SubSeq(payload, 1, 54))
    ELSE IF Len(payload) >= 43
      THEN PartialCentralStatus_try_parse(SubSeq(payload, 1, 43))
    ELSE NoStatus

\* _parse_status: by the length of the payload; the partial status is
\* copied field by field into a CentralStatus (kind records its origin)
parse_status(payload) ==
    IF Len(payload) = 54 THEN CentralStatus_try_parse(payload)
    ELSE IF Len(payload) = 43 THEN PartialCentralStatus_try_parse(payload)
    ELSE NoStatus

\* Response.from_isecnet_frame(...).is_error: a short content whose first
\* byte is a NACK code (0xE0..0xEA)
Response_is_error(content) ==
    Response_from_isecnet_frame(content).response_type = "nack"

\* poll_status: a leading 0xFE followed by more bytes is dropped
status_payload(raw_content) ==
    IF raw_content # <<>> /\ raw_content[1] = ResponseCode_ACK
            /\ Len(raw_content) > 1
      THEN Tail(raw_content)
      ELSE raw_content

\* _publish_status: the value published on the state topic
publish_state(status) ==
    IF status.armed /\ (status.siren_on \/ status.violated_zones # {})
      THEN "Disparada"
    ELSE IF status.armed
      THEN (IF status.partitions_enabled /\ ~status.all_armed
              THEN "Armada Parcial" ELSE "Armada")
    ELSE "Desarmada"

NoPoll == [parsed |-> "none", violated |-> {}, state |-> "none"]

\* poll_status from the response on: what was parsed and published, and
\* the zone states it leaves
poll_status(states, content) ==
    LET status == parse_status(status_payload(content))
    IN  IF Response_is_error(content) \/ status = NoStatus
          THEN [polled |-> NoPoll, zone_states |-> states]
          ELSE [polled |-> [parsed |-> status.kind,
                            violated |-> status.violated_zones,
                            state |-> publish_state(status)],
                zone_states |-> isecnet_zone_update(states, status.open_zones,
                                                    status.violated_zones)]

\* a status of n bytes (54 or 43): the first open-zones byte, the first
\* violated-zones byte, the partition-enabled byte and the function byte
\* as given, every other byte 0
StatusBlob(n, first, violated, enabled, func) ==
    [i \in 1 .. n |->
        IF i = 1 THEN first
        ELSE IF i = (IF n = 54 THEN 9 ELSE 7) THEN violated
        ELSE IF i = (IF n = 54 THEN 27 ELSE 21) THEN enabled
        ELSE IF i = (IF n = 54 THEN 30 ELSE 23) THEN func
        ELSE 0]

\* response contents: statuses of both lengths (zones 1 and 3 open, or
\* zones 2..8; zone 3 violated or none; disarmed, armed, siren on), a full
\* status behind an ACK byte, and contents that are no status
StatusContents ==
    {StatusBlob(n, first, violated, enabled, func) :
        n \in {54, 43}, first \in {0, 5, 254}, violated \in {0, 4},
        enabled \in {0, 1}, func \in {0, 8, 2, 10}}
    \cup {<<ResponseCode_ACK>> \o StatusBlob(54, 5, 4, 0, 8),
          StatusBlob(53, 5, 4, 0, 8), <<>>, <<ResponseCode_ACK>>, <<225>>}

InitStatus ==
    /\ sContent = <<>>
    /\ sZones = [z \in Zones |-> "Desconocido"]
    /\ sPolled = NoPoll
    /\ sWhy = "none"

\* one poll_status call whose _send_command returned this response
StatusPoll ==
    \E content \in StatusContents :
        LET r == poll_status(sZones, content)
        IN  /\ sContent' = content
            /\ sZones' = r.zone_states
            /\ sPolled' = r.polled
            /\ sWhy' = "response"

\* one poll_status call that got no response: it returned at its
\* _ensure_connected() check, or _send_command raised (no server, no
\* connection id, the future's timeout) and `except Exception` logged it
StatusPollFailed ==
    \E why \in {"no_connection", "timeout"} :
        /\ sContent' = <<>>
        /\ sZones' = sZones
        /\ sPolled' = NoPoll
        /\ sWhy' = why

(***************************************************************************)
(* CentralStatus.try_parse and PartialCentralStatus.try_parse applied to   *)
(* data of any length                                                      *)
(***************************************************************************)
\* n bytes of `fill` with the five date-time bytes (hour, minute, day,
\* month, year) at the places the n-byte status has them
DateBlob(n, fill, date) ==
    LET first == IF n = 54 THEN 31 ELSE 24
    IN  [i \in 1 .. n |->
            IF i >= first /\ i < first + 5 THEN date[i - first + 1] ELSE fill]

\* hours, minutes, days, months and years on both sides of every limit of
\* the calendar (2000 and 2252 are leap years, 2001 and 2100 are not)
DateBytes ==
    {<<hour, minute, day, month, year>> :
        hour \in {0, 23, 24}, minute \in {0, 59, 60},
        day \in {0, 1, 28, 29, 30, 31, 32}, month \in {0, 1, 2, 4, 12, 13},
        year \in {0, 1, 100, 252}}

\* statuses of both exact lengths, and data of other lengths
StatusDatas ==
    {DateBlob(n, fill, date) : n \in {54, 43}, fill \in {0, 255}, date \in DateBytes}
    \cup {[i \in 1 .. n |-> 1] : n \in {0, 1, 42, 44, 53, 55}}

InitStatusParse ==
    /\ callArg \in [cls : {"CentralStatus", "PartialCentralStatus"},
                    data : StatusDatas]
    /\ callpc = "start"
    /\ callResult = <<>>

\* cls.try_parse(data)
StatusTryParse ==
    /\ callpc = "start"
    /\ callResult' = IF callArg.cls = "CentralStatus"
                       THEN CentralStatus_try_parse(callArg.data)
                       ELSE PartialCentralStatus_try_parse(callArg.data)
    /\ callpc' = "returned"
    /\ UNCHANGED callArg

(***************************************************************************)
(* Command tokens (protocol_handlers/isecnet.py: _normalize_command, the   *)
(* _command_aliases and _command_actions tables, handle_command).  A       *)
(* token is the sequence of its characters.                                *)
(***************************************************************************)
MaxPad == 1

LowerChars == <<"a", "b", "c", "d", "e", "f", "g", "h", "i", "j", "k", "l", "m",
               "n", "o", "p", "q", "r", "s", "t", "u", "v", "w", "x", "y", "z">>
UpperChars == <<"A", "B", "C", "D", "E", "F", "G", "H", "I", "J", "K", "L", "M",
               "N", "O", "P", "Q", "R", "S", "T", "U", "V", "W", "X", "Y", "Z">>

\* str.upper() / str.lower() on the characters of the tokens
str_upper(s) ==
    [i \in 1 .. Len(s) |->
        IF \E k \in 1 .. Len(LowerChars) : LowerChars[k] = s[i]
          THEN UpperChars[CHOOSE k \in 1 .. Len(LowerChars) : LowerChars[k] = s[i]]
          ELSE s[i]]

str_lower(s) ==
    [i \in 1 .. Len(s) |->
        IF \E k \in 1 .. Len(UpperChars) : UpperChars[k] = s[i]
          THEN LowerChars[CHOOSE k \in 1 .. Len(UpperChars) : UpperChars[k] = s[i]]
          ELSE s[i]]

\* str.replace(old, new) for single characters
str_replace(s, old, new) ==
    [i \in 1 .. Len(s) |-> IF s[i] = old THEN new ELSE s[i]]

RECURSIVE str_lstrip(_)
str_lstrip(s) ==
    IF s # <<>> /\ Head(s) = " " THEN str_lstrip(Tail(s)) ELSE s

RECURSIVE str_rstrip(_)
str_rstrip(s) ==
    IF s # <<>> /\ s[Len(s)] = " " THEN str_rstrip(ButLast(s)) ELSE s

\* str.strip()
str_strip(s) == str_rstrip(str_lstrip(s))

\* the words the command keys are made of
W ==
    [ARM |-> <<"A", "R", "M">>,
     DISARM |-> <<"D", "I", "S", "A", "R", "M">>,
     PART |-> <<"P", "A", "R", "T">>,
     PARTITION |-> <<"P", "A", "R", "T", "I", "T", "I", "O", "N">>,
     AWAY |-> <<"A", "W", "A", "Y">>,
     HOME |-> <<"H", "O", "M", "E">>,
     NIGHT |-> <<"N", "I", "G", "H", "T">>,
     VACATION |-> <<"V", "A", "C", "A", "T", "I", "O", "N">>,
     CUSTOM |-> <<"C", "U", "S", "T", "O", "M">>,
     BYPASS |-> <<"B", "Y", "P", "A", "S", "S">>,
     PANIC |-> <<"P", "A", "N", "I", "C">>]

Verbs == {W.ARM, W.DISARM}
PartitionLetters == {"A", "B", "C", "D"}

RECURSIVE Join(_, _)
\* sep.join(words)
Join(ws, sep) ==
    IF Len(ws) = 1 THEN ws[1]
    ELSE ws[1] \o <<sep>> \o Join(Tail(ws), sep)

\* dict.get(key, default) on a set of <<key, value>> pairs
Get(dict, key, default) ==
    IF \E p \in dict : p[1] = key
      THEN (CHOOSE p \in dict : p[1] = key)[2]
      ELSE default

\* self._command_aliases
command_aliases ==
    {<<Join(<<v, W.PARTITION, <<x>>>>, "_"), Join(<<v, W.PART, <<x>>>>, "_")>> :
        v \in Verbs, x \in PartitionLetters}

\* _normalize_command as it would be without its replace("-", "_")
normalize_command_keep_dash(command) ==
    LET key == str_replace(str_upper(str_strip(command)), " ", "_")
    IN  Get(command_aliases, key, key)

\* _normalize_command
normalize_command(command) ==
    LET key == str_replace(
                   str_replace(str_upper(str_strip(command)), "-", "_"),
                   " ", "_")
    IN  Get(command_aliases, key, key)

\* PartitionCode.PARTITION_A .. PARTITION_D
PartitionCode(x) ==
    CASE x = "A" -> 65 [] x = "B" -> 66 [] x = "C" -> 67 [] x = "D" -> 68

\* self._command_actions: the command code and content each key sends
\* (CommandCode.ACTIVATION = 0x41, DEACTIVATION = 0x44)
command_actions ==
    {<<Join(<<W.ARM, W.AWAY>>, "_"), [code |-> 65, content |-> <<>>]>>,
     <<Join(<<W.ARM, W.HOME>>, "_"), [code |-> 65, content |-> <<PartitionCode("A")>>]>>,
     <<Join(<<W.ARM, W.NIGHT>>, "_"), [code |-> 65, content |-> <<PartitionCode("B")>>]>>,
     <<Join(<<W.ARM, W.VACATION>>, "_"), [code |-> 65, content |-> <<PartitionCode("C")>>]>>,
     <<Join(<<W.ARM, W.CUSTOM, W.BYPASS>>, "_"),
       [code |-> 65, content |-> <<PartitionCode("D")>>]>>,
     <<W.DISARM, [code |-> 68, content |-> <<>>]>>}
    \cup {<<Join(<<W.ARM, W.PART, <<x>>>>, "_"),
            [code |-> 65, content |-> <<PartitionCode(x)>>]>> : x \in PartitionLetters}
    \cup {<<Join(<<W.DISARM, W.PART, <<x>>>>, "_"),
            [code |-> 68, content |-> <<PartitionCode(x)>>]>> : x \in PartitionLetters}

\* Command.build() of a command with this code and content
Command_bytes(code, content) ==
    ISECNetFrame_build(ISECNetFrame_create_mobile_frame(
        ISECMobileFrame_build(ISECMobileFrame_create(alarm_pass, code, content))))

NoAction == [code |-> 0, content |-> <<>>]

\* handle_command with a panel connected: the bytes of the frame it has
\* _send_command write (none for a token it does not know)
handle_command_bytes(command) ==
    LET command_key == normalize_command(command)
        action == Get(command_actions, command_key, NoAction)
    IN  IF command_key = W.PANIC THEN Command_bytes(Command_code("PANIC"), <<>>)
        ELSE IF action = NoAction THEN <<>>
        ELSE Command_bytes(action.code, action.content)

\* n spaces
Pad(n) == [i \in 1 .. n |-> " "]

\* the spellings of a partition command: either form, either case, each
\* separator '_', '-' or ' ', spaces around
TokenVariants(intent) ==
    {Pad(l) \o (IF low THEN str_lower(t) ELSE t) \o Pad(r) :
        l \in 0 .. MaxPad, r \in 0 .. MaxPad, low \in BOOLEAN,
        t \in {intent.verb \o <<sep1>> \o form \o <<sep2>> \o <<intent.partition>> :
                 form \in {W.PART, W.PARTITION},
                 sep1 \in {"_", "-", " "}, sep2 \in {"_", "-", " "}}}

InitTokens ==
    /\ aIntent \in [verb : Verbs, partition : PartitionLetters]
    /\ aToken \in TokenVariants(aIntent)
    /\ apc = "start"
    /\ aWritten = <<>>

IdleTokens ==
    /\ aIntent = [verb |-> <<>>, partition |-> ""]
    /\ aToken = <<>>
    /\ apc = "start"
    /\ aWritten = <<>>

\* handle_command(aToken)
TokenHandle ==
    /\ apc = "start"
    /\ aToken # <<>>
    /\ aWritten' = handle_command_bytes(aToken)
    /\ apc' = "handled"
    /\ UNCHANGED <<aIntent, aToken>>

\* no specification of a pure function has started
IdleLate == InitLife /\ InitLegacy /\ InitDown /\ IdleMore

IdlePure ==
    IdleNet /\ items = <<>> /\ InitStatus /\ IdleTokens /\ IdleCall /\ IdleLate

(***************************************************************************)
(* Specifications                                                          *)
(***************************************************************************)
IdleBridge == IdleThreads /\ InitServer

NextReader ==
    ReaderFeed /\ UNCHANGED <<mobileVars, zoneVars, bridgeVars, pureVars>>

InitReaderSpec ==
    InitReader /\ IdleMobile /\ IdleZones /\ IdleBridge /\ IdlePure

SpecReader == InitReaderSpec /\ [][NextReader]_vars

NotMobile == UNCHANGED <<readerVars, zoneVars, bridgeVars, pureVars>>

NextMobile ==
    \/ MobileCreate /\ NotMobile
    \/ MobileBuild /\ NotMobile
    \/ MobileParse /\ NotMobile

InitMobileSpec ==
    IdleReader /\ InitMobile /\ IdleZones /\ IdleBridge /\ IdlePure

SpecMobile == InitMobileSpec /\ [][NextMobile]_vars

NotZones == UNCHANGED <<readerVars, mobileVars, bridgeVars, pureVars>>

NextZones ==
    \/ ISECNetPollZones /\ NotZones
    \/ AMT8000PollZones /\ NotZones
    \/ SidecarZoneTrigger /\ NotZones
    \/ SidecarZoneRestore /\ NotZones
    \/ SidecarDisarm /\ NotZones
    \/ ISECNetDisarm /\ NotZones

InitZonesSpec ==
    IdleReader /\ IdleMobile /\ InitZones /\ IdleBridge /\ IdlePure

SpecZones == InitZonesSpec /\ [][NextZones]_vars

\* every group but one idle
IdleButPure == IdleReader /\ IdleMobile /\ IdleZones /\ IdleBridge

NotPure == UNCHANGED <<readerVars, mobileVars, zoneVars, bridgeVars>>

NextNet ==
    \/ NetBuild /\ NotPure /\ UNCHANGED <<items, statusVars, tokenVars, callVars, lateVars>>
    \/ NetParse /\ NotPure /\ UNCHANGED <<items, statusVars, tokenVars, callVars, lateVars>>

InitNetSpec ==
    /\ IdleButPure /\ InitNet /\ items = <<>> /\ InitStatus /\ IdleTokens
    /\ IdleCall /\ IdleLate

SpecNet == InitNetSpec /\ [][NextNet]_vars

InitWellFormedSpec ==
    InitWellFormed /\ IdleMobile /\ IdleZones /\ IdleBridge /\ IdleNet
        /\ InitStatus /\ IdleTokens /\ IdleCall /\ IdleLate

NextStatus ==
    \/ StatusPoll /\ NotPure /\ UNCHANGED <<netVars, items, tokenVars, callVars, lateVars>>
    \/ StatusPollFailed /\ NotPure
            /\ UNCHANGED <<netVars, items, tokenVars, callVars, lateVars>>

InitStatusSpec ==
    /\ IdleButPure /\ IdleNet /\ items = <<>> /\ InitStatus /\ IdleTokens
    /\ IdleCall /\ IdleLate

NextTokens ==
    TokenHandle /\ NotPure /\ UNCHANGED <<netVars, items, statusVars, callVars, lateVars>>

InitTokensSpec ==
    /\ IdleButPure /\ IdleNet /\ items = <<>> /\ InitStatus /\ InitTokens
    /\ IdleCall /\ IdleLate

SpecTokens == InitTokensSpec /\ [][NextTokens]_vars

\* every group but the call's idle and unchanged
IdleButCall ==
    IdleButPure /\ IdleNet /\ items = <<>> /\ InitStatus /\ IdleTokens /\ IdleLate

NotCall == NotPure /\ UNCHANGED <<netVars, items, statusVars, tokenVars, lateVars>>

NextResponse == ResponseClassify /\ NotCall

InitResponseSpec == IdleButCall /\ InitResponse

SpecResponse == InitResponseSpec /\ [][NextResponse]_vars

NextStatusParse == StatusTryParse /\ NotCall

InitStatusParseSpec == IdleButCall /\ InitStatusParse

SpecStatusParse == InitStatusParseSpec /\ [][NextStatusParse]_vars

\* every group before the late ones idle and unchanged
IdleButLate ==
    IdleButPure /\ IdleNet /\ items = <<>> /\ InitStatus /\ IdleTokens /\ IdleCall

NotLate ==
    NotPure /\ UNCHANGED <<netVars, items, statusVars, tokenVars, callVars>>

NotLife == NotLate /\ UNCHANGED <<legacyVars, downVars, moreVars>>

NextServer ==
    \/ start /\ NotLife
    \/ stop /\ NotLife
    \/ StopResume /\ NotLife
    \/ StopReturn /\ NotLife
    \/ \E c \in ConnIds : Accept(c) /\ NotLife
    \/ \E c \in ConnIds : HandleClientStart(c) /\ NotLife
    \/ \E c \in ConnIds : ReadLoopEnd(c) /\ NotLife
    \/ \E c \in ConnIds : DisconnectCallbacks(c) /\ NotLife
    \/ \E c \in ConnIds : WriterClose(c) /\ NotLife

InitServerSpec == IdleButLate /\ InitLife /\ InitLegacy /\ InitDown /\ IdleMore

SpecServer == InitServerSpec /\ [][NextServer]_vars

NotLegacy == NotLate /\ UNCHANGED <<lifeVars, downVars, moreVars>>

NextLegacy ==
    \/ \E ok \in BOOLEAN : ClientConnect(ok) /\ NotLegacy
    \/ \E ok \in BOOLEAN, io \in SocketOutcomes : ClientCommand(ok, io) /\ NotLegacy
    \/ ClientClose /\ NotLegacy
    \/ \E command \in LegacyCommands : HandlerBegin(command) /\ NotLegacy
    \/ \E ok \in BOOLEAN, io \in SocketOutcomes, answer \in AuthAnswers :
            HandlerAttempt(ok, io, answer) /\ NotLegacy
    \/ \E io \in SocketOutcomes : HandlerAct(io) /\ NotLegacy
    \/ HandlerReturn /\ NotLegacy

InitLegacySpec == IdleButLate /\ InitLife /\ InitLegacy /\ InitDown /\ IdleMore

\* the polling thread alone, with the shutdown flag set at any moment
NotPoll ==
    NotLate /\ UNCHANGED <<lifeVars, legacyVars, availability, mqtt_loop, down,
                           wireVars>>

NextPoll ==
    \/ PollWhile /\ NotPoll
    \/ \E auth_ok \in BOOLEAN, what \in PollEvents : PollOnce(auth_ok, what) /\ NotPoll
    \/ PollWait /\ NotPoll
    \/ PollShutdownEvent /\ NotPoll

InitPollSpec ==
    IdleButLate /\ InitLife /\ InitLegacy /\ InitDown /\ InitPoll /\ IdleWire

SpecPoll == InitPollSpec /\ [][NextPoll]_vars

\* the writer of one connection, its tasks and the socket
NotWire == NotLate /\ UNCHANGED <<lifeVars, legacyVars, downVars, pollVars>>

NextWire ==
    \/ \E w \in Writes, t \in Submitters : Submit(w, t) /\ NotWire
    \/ \E w \in Writes : AutoAck(w) /\ NotWire
    \/ \E w \in Writes, n \in 1 .. MaxFrameLen : CoroWrite(w, n) /\ NotWire
    \/ \E w \in Writes : Drain(w) /\ NotWire
    \/ \E n \in 1 .. MaxFrameLen : SocketSend(n) /\ NotWire

InitWireSpec ==
    IdleButLate /\ InitLife /\ InitLegacy /\ InitDown /\ IdlePoll /\ InitWire

SpecWire == InitWireSpec /\ [][NextWire]_vars

SpecLegacy == InitLegacySpec /\ [][NextLegacy]_vars

SpecStatus == InitStatusSpec /\ [][NextStatus]_vars

\* the reader of SpecReader, fed with streams made of well-formed items
SpecWellFormed == InitWellFormedSpec /\ [][NextReader]_vars

\* the reader, round-trip and zone variables are not the bridge's
Others == UNCHANGED <<readerVars, mobileVars, zoneVars, pureVars>>

Next ==
    \/ MqttMessage /\ Others
    \/ PollTick /\ Others
    \/ SirenTimerFire /\ Others
    \/ SidecarLine /\ Others
    \/ \E t \in Threads : Acquire(t) /\ Others
    \/ \E t \in Threads : Dispatch(t) /\ Others
    \/ \E t \in Threads : AwaitResult(t) /\ Others
    \/ \E t \in Threads : CallerTimeout(t) /\ Others
    \/ \E t \in Threads : LegacyPanelAccess(t) /\ Others
    \/ SidecarHandle /\ Others
    \/ SidecarPublish /\ Others
    \/ PanelConnect /\ Others
    \/ PanelDisconnect /\ Others
    \/ PanelHeartbeat /\ Others
    \/ PanelIdent /\ Others
    \/ \E o \in Ops : PanelRespond(o) /\ Others
    \/ \E o \in Ops : CoroStart(o) /\ Others
    \/ \E o \in Ops : DrainResume(o) /\ Others
    \/ \E o \in Ops : TimerFire(o) /\ Others
    \/ \E o \in Ops : TimeoutResume(o) /\ Others
    \/ shutdown /\ Others

Init ==
    /\ IdleReader /\ IdleMobile /\ IdleZones /\ IdlePure
    /\ InitThreads /\ InitServer

Spec == Init /\ [][Next]_vars



\* The thread holding the lock keeps running, and so do the server loop
\* and its timers: a step of theirs that stays possible is eventually
\* taken.  Nothing is assumed of the panel, of the arrival of work, nor of
\* a suspended drain(), which ends only when the panel reads.
HolderStep ==
    \/ \E t \in Threads : Dispatch(t)
    \/ \E t \in Threads : AwaitResult(t)
    \/ \E t \in Threads : CallerTimeout(t)
    \/ \E t \in Threads : LegacyPanelAccess(t)
    \/ SidecarHandle
    \/ SidecarPublish

LoopStep ==
    \E o \in Ops :
        CoroStart(o) \/ TimerFire(o) \/ TimeoutResume(o)

Fairness ==
    /\ WF_vars(HolderStep /\ Others)
    /\ WF_vars(LoopStep /\ Others)

FairSpec == Spec /\ Fairness

\* the bridge with its signal handler: the threads and the event loop run
\* on while handle_shutdown goes through its steps; the MQTT loop delivers
\* no message once it is stopped
NotDown ==
    UNCHANGED <<readerVars, mobileVars, zoneVars, netVars, items, statusVars,
                tokenVars, callVars, lifeVars, legacyVars, moreVars>>

NextDown ==
    \/ /\ Next
       /\ loop_running' = loop_running
       /\ (tpc["mqtt"] = "idle" /\ tpc'["mqtt"] # "idle") => mqtt_loop = "running"
    \/ ShutdownFlag /\ UNCHANGED bridgeVars /\ NotDown
    \/ PublishOffline /\ UNCHANGED bridgeVars /\ NotDown
    \/ MqttLoopStop /\ UNCHANGED bridgeVars /\ NotDown
    \/ HandlerShutdown /\ NotDown

SpecDown == Init /\ [][NextDown]_vars

C8_LockReleased ==
    /\ (alarm_lock # "free") ~> (alarm_lock = "free")
    /\ [](\A t \in Threads :
            tpc[t] \in {"acquire", "acquire2"} => alarm_lock # t)

\* the sidecar is at its second acquisition, after releasing the first
C8_Witness ==
    /\ tpc["sidecar"] = "acquire2"
    /\ alarm_lock = "mqtt"

(***************************************************************************)
(* C9: feeding a byte sequence chunk by chunk emits the same frames, and   *)
(* leaves the same pending buffer, as feeding it in one call.  Checked at  *)
(* every point of every split: after any number of chunks the reader is in *)
(* the state one feed() of the bytes received so far would have left.      *)
(***************************************************************************)
C9_SplitEquivalence ==
    LET whole == feed(<<>>, SubSeq(stream, 1, fed))
    IN  /\ frames = whole.frames
        /\ buffer = whole.buffer

\* a stream fed in at least two chunks that emitted a frame and holds bytes back
C9_Witness ==
    /\ fed = Len(stream)
    /\ nfeeds >= 2
    /\ Len(frames) >= 1
    /\ \E i \in 1 .. Len(frames) : frames[i].command # ISECNET_COMMAND_HEARTBEAT
    /\ Len(buffer) >= 1

(***************************************************************************)
(* C10: parse(create(password, opcode, body).build()) returns the same     *)
(* password, opcode and body.                                              *)
(***************************************************************************)
C10_MobileRoundTrip ==
    mpc = "parsed" =>
        /\ mParsed.ok
        /\ mParsed.password = mInput.password
        /\ mParsed.command = <<mInput.opcode>>
        /\ mParsed.content = mInput.body

(***************************************************************************)
(* C2: a zone that is Disparada before a status poll is still Disparada    *)
(* after it, in both handlers, when the poll does not report it violated   *)
(* (it reports it closed, or open).                                        *)
(***************************************************************************)
C2_TriggeredSticksAcrossPoll ==
    [][\A z \in Zones :
        (lastOp'.kind = "poll" /\ zone_states[z] = "Disparada"
            /\ z \notin lastOp'.violated)
        => zone_states'[z] = "Disparada"]_vars

C3_LateFrameToCallbacks ==
    (lastIO.kind = "read" /\ lastIO.late) => lastIO.how = "callbacks"

(***************************************************************************)
(* C4: at most one send_command call is waiting on the pending-response    *)
(* slot at any time, and once a frame has completed the waiter the slot is *)
(* empty.                                                                  *)
(***************************************************************************)
C4_SingleWaiter ==
    /\ Cardinality({o \in Ops : cpc[o] = "wait"}) <= 1
    /\ lastIO.how = "completed" => pending_response = 0

(***************************************************************************)
(* C5: with auto-ack enabled, reading a heartbeat or an identification     *)
(* frame leaves the pending-response slot, its future and every waiting    *)
(* send_command as they were; and a non-auto-handled frame read while the  *)
(* slot holds a pending future completes that future, empties the slot and *)
(* ends every send_command waiting for it with the response.               *)
(***************************************************************************)
C5_AutoHandledNeverCompletes ==
    [][lastIO'.kind = "read" =>
        LET p == pending_response
            auto == lastIO'.command \in
                        {ISECNET_COMMAND_HEARTBEAT, CONNECTION_INFO_COMMAND}
        IN  /\ auto => /\ pending_response' = p
                       /\ fut' = fut
                       /\ cpc' = cpc
                       /\ cwait' = cwait
            /\ (~auto /\ p # 0 /\ fut[p] = "pending") =>
                   /\ pending_response' = 0
                   /\ lastIO'.how = "completed"
                   /\ \A x \in Ops :
                        (cpc[x] = "wait" /\ cwait[x] = p) =>
                            /\ cpc'[x] = "done"
                            /\ cres'[x] \in {"response", "over"}
                            /\ (\E t \in Threads : top[t] = x)
                                    => cres'[x] = "response"]_vars

\* a heartbeat has just been read while a send_command waits on the slot
C5_Witness ==
    /\ lastIO.kind = "read"
    /\ lastIO.command = ISECNET_COMMAND_HEARTBEAT
    /\ pending_response # 0
    /\ fut[pending_response] = "pending"
    /\ \E x \in Ops : cpc[x] = "wait" /\ cwait[x] = pending_response

(***************************************************************************)
(* C6: for two commands A then B dispatched by the bridge, no byte of B is *)
(* written before A's wait has completed: when a command's frame is        *)
(* written, no other send_command is still draining, waiting or handling   *)
(* its timeout.                                                            *)
(***************************************************************************)
C6_DispatchOrdering ==
    lastIO.kind = "send" =>
        \A a \in Ops \ {lastIO.re} : cpc[a] \notin {"drain", "wait", "expired"}

(***************************************************************************)
(* C11: for every command byte and every content of at most 253 bytes,     *)
(* ISECNetFrame.parse applied to ISECNetFrame(command, content).build()    *)
(* returns a frame with the same command and the same content.             *)
(***************************************************************************)
C11_NetRoundTrip ==
    npc = "parsed" =>
        /\ nParsed # NoFrame
        /\ nParsed.command = nInput.command
        /\ nParsed.content = nInput.content

\* a 253-byte content of heartbeat bytes under the heartbeat command came back
C11_Witness ==
    /\ npc = "parsed"
    /\ Len(nInput.content) = LongContentLen
    /\ nInput.command = ISECNET_COMMAND_HEARTBEAT
    /\ nParsed.content = nInput.content

(***************************************************************************)
(* C12: feeding the reader a concatenation of well-formed wrapped frames   *)
(* and bare 0xF7 heartbeats emits exactly those frames and heartbeats, in  *)
(* the order their bytes were fed, and ends with pending_bytes = 0.  At    *)
(* every point of the feeding the frames emitted so far are the first      *)
(* items of the stream.                                                    *)
(***************************************************************************)
C12_WellFormedStream ==
    LET expected == [i \in 1 .. Len(items) |-> items[i].frame]
    IN  /\ Len(frames) <= Len(expected)
        /\ frames = SubSeq(expected, 1, Len(frames))
        /\ fed = Len(stream) => (frames = expected /\ Len(buffer) = 0)

\* a bare heartbeat between two wrapped frames, fed in several chunks
C12_Witness ==
    /\ Len(items) = 3
    /\ ~items[1].bare /\ items[2].bare /\ ~items[3].bare
    /\ Len(items[1].frame.content) = 2
    /\ fed = Len(stream)
    /\ nfeeds >= 3
    /\ Len(frames) = 3

(***************************************************************************)
(* C13: a send_command that wrote its frame and ends while the connection  *)
(* is up and the panel has answered none of the commands written to it (no *)
(* non-auto-handled frame has arrived) fails with a timeout error, which   *)
(* its caller receives, and the pending-response slot is empty afterwards. *)
(***************************************************************************)
C13_TimeoutClearsSlot ==
    [][\A o \in Ops :
          (/\ cpc[o] \in {"drain", "wait", "expired"}
           /\ cpc'[o] = "done"
           /\ conn' = "up"
           /\ panelRecv' = {x \in Ops : cpc[x] \notin {"none", "submitted"}}
           /\ \E t \in Threads : top[t] = o)
          => (cres'[o] = "timeout" /\ pending_response' = 0)]_vars

(***************************************************************************)
(* C14: a handle_command call whose command ended in the server's response *)
(* timeout, or found the connection no longer registered when it was       *)
(* dispatched (ValueError), returns normally: no exception reaches the     *)
(* MQTT message callback, whatever the token.                              *)
(***************************************************************************)
C14_NoExceptionToCallback ==
    (lastExit.thread = "mqtt" /\ lastExit.why \in {"timeout", "valueerror"})
        => lastExit.how = "returned"

(***************************************************************************)
(* C15: every PANIC handled by the ISECNet handler whose Siren-ON frame    *)
(* was written to the panel schedules exactly one deferred Siren-OFF by    *)
(* the time handle_command ends, whether the panel answered or the wait    *)
(* for its answer timed out.                                               *)
(***************************************************************************)
C15_PanicSchedulesSirenOff ==
    [][LET o == top["mqtt"]
           wrote == /\ o # 0
                    /\ \/ cpc[o] \in {"drain", "wait", "expired"}
                       \/ cpc[o] = "done" /\ cres[o] # "valueerror"
       IN  (lastExit'.thread = "mqtt" /\ lastExit'.command = "PANIC" /\ wrote)
               => timers' = timers + 1]_vars

C17_NoConnectionNoEffect ==
    [][(/\ protocol = "isecnet"
        /\ tpc["mqtt"] = "cs"
        /\ tpc'["mqtt"] # "cs"
        /\ connection_id = 0)
       => /\ lastIO'.kind = "none"
          /\ cpc' = cpc
          /\ nextOp' = nextOp
          /\ timers' = timers
          /\ zone_states' = zone_states
          /\ lastExit' = [thread |-> "mqtt", command |-> mqtt_command,
                          why |-> "noconnection", how |-> "returned"]]_vars

\* a PANIC was handled while the panel was away, after an earlier command
\* had been sent to it
C17_Witness ==
    /\ lastExit.thread = "mqtt"
    /\ lastExit.command = "PANIC"
    /\ lastExit.why = "noconnection"
    /\ conn = "closed"
    /\ nextOp > 1
    /\ timers = 0

(***************************************************************************)
(* C18: a poll whose response content is exactly 54 bytes is parsed as a   *)
(* full status, one of exactly 43 bytes as a partial status, and in both   *)
(* cases the zone update is applied with the zone sets of that content,    *)
(* whatever the values of its bytes.                                       *)
(***************************************************************************)
C18_StatusByLength ==
    [][/\ Len(sContent') = 54 =>
            /\ sPolled'.parsed = "full"
            /\ sZones' = isecnet_zone_update(sZones,
                    ZoneStatus_parse_bitmask(SubSeq(sContent', 1, 8), 1),
                    ZoneStatus_parse_bitmask(SubSeq(sContent', 9, 16), 1))
       /\ Len(sContent') = 43 =>
            /\ sPolled'.parsed = "partial"
            /\ sZones' = isecnet_zone_update(sZones,
                    ZoneStatus_parse_bitmask(SubSeq(sContent', 1, 6), 1),
                    ZoneStatus_parse_bitmask(SubSeq(sContent', 7, 12), 1))
      ]_vars

(***************************************************************************)
(* C19: after a successful ISECNet poll whose status reports at least one  *)
(* violated zone, the value published on the state topic is Disparada.     *)
(***************************************************************************)
C19_ViolatedPublishesDisparada ==
    (sPolled.parsed # "none" /\ sPolled.violated # {})
        => sPolled.state = "Disparada"

(***************************************************************************)
(* C20: handle_command given a partition command in its _PARTITION_ form   *)
(* or its _PART_ form, in upper or lower case, with '_', '-' or a space    *)
(* between the words and with spaces around, writes exactly the bytes it   *)
(* writes for the plain _PART_ token (ARM_PART_x, DISARM_PART_x, x in      *)
(* A..D), and these are the bytes of a command.                            *)
(***************************************************************************)
C20_AliasSameBytes ==
    apc = "handled" =>
        /\ aWritten = handle_command_bytes(
                          Join(<<aIntent.verb, W.PART, <<aIntent.partition>>>>, "_"))
        /\ aWritten # <<>>

\* " disarm-partition c": lower case, a dash, a space inside and around
C20_Witness ==
    /\ apc = "handled"
    /\ aToken = <<" ">> \o str_lower(W.DISARM) \o <<"-">> \o str_lower(W.PARTITION)
                    \o <<" ", "c", " ">>
    /\ aWritten = Command_bytes(68, <<67>>)

(***************************************************************************)
(* C21: the classification of a response is total and follows the stated   *)
(* order for every frame content: length 0 gives Unknown; length >= 43     *)
(* gives Data; otherwise a first byte 0xFE gives Ack, a first byte in      *)
(* 0xE0..0xEA gives Nack with that code, and any other first byte gives    *)
(* Data when more bytes follow and Unknown when none do.                   *)
(***************************************************************************)
C21_ClassificationOrder ==
    (callpc = "returned" /\ callArg \in ResponseContents) =>
        LET n == Len(callArg)
            t == callResult.response_type
        IN  /\ t \in {"unknown", "data", "ack", "nack"}
            /\ n = 0 => t = "unknown"
            /\ n >= 43 => t = "data"
            /\ (n >= 1 /\ n < 43) =>
                 /\ callArg[1] = 254 => t = "ack"
                 /\ (callArg[1] >= 224 /\ callArg[1] <= 234) =>
                        (t = "nack" /\ callResult.code = callArg[1])
                 /\ (callArg[1] # 254 /\ (callArg[1] < 224 \/ callArg[1] > 234)) =>
                        t = (IF n > 1 THEN "data" ELSE "unknown")

\* a 43-byte content that starts with the ACK byte was classified as Data
C21_Witness ==
    /\ callpc = "returned"
    /\ Len(callArg) = 43
    /\ callArg[1] = 254
    /\ callResult.response_type = "data"

(***************************************************************************)
(* C22: every response classified as Nack carries a code of the NACK table *)
(* {0xE0..0xE8, 0xEA} and a reason text from that table; a first byte 0xE9 *)
(* is never classified as Nack.                                            *)
(***************************************************************************)
C22_NackCodesFromTable ==
    (callpc = "returned" /\ callArg \in ResponseContents) =>
        /\ callResult.response_type = "nack" =>
              /\ callResult.code \in {224, 225, 226, 227, 228, 229, 230, 231, 232, 234}
              /\ callResult.message = "table"
        /\ (Len(callArg) >= 1 /\ callArg[1] = 233) =>
              callResult.response_type # "nack"

(***************************************************************************)
(* C23: for every ISECNet frame (any command byte, content of 0 to 253     *)
(* bytes) Checksum.validate_packet(frame.build()) is true; with the last   *)
(* byte of the built frame replaced by any other value it is false; and it *)
(* is false for every packet shorter than 2 bytes.                         *)
(***************************************************************************)
C23_BuiltFrameValidates ==
    (npc \in {"built", "parsed"} /\ Len(nInput.content) <= 253) =>
        /\ Checksum_validate_packet(nBytes)
        /\ \A b \in 0 .. 255 :
              b # nBytes[Len(nBytes)] =>
                  ~Checksum_validate_packet(Append(ButLast(nBytes), b))
        /\ \A k \in 0 .. 1 : ~Checksum_validate_packet(SubSeq(nBytes, 1, k))
        /\ \A b \in 0 .. 255 : ~Checksum_validate_packet(<<b>>)

\* a frame with a 253-byte content was built and validated
C23_Witness ==
    /\ npc = "built"
    /\ Len(nInput.content) = 253
    /\ Len(nBytes) = 256
    /\ Checksum_validate_packet(nBytes)

(***************************************************************************)
(* C24: CentralStatus.try_parse returns None for data whose length is not  *)
(* 54 and PartialCentralStatus.try_parse returns None for data whose       *)
(* length is not 43; for data of the exact length the parse returns a      *)
(* status, and its date-time is null when the five date bytes are not a    *)
(* valid calendar date and time.                                           *)
(***************************************************************************)
C24_ParseByExactLength ==
    callpc = "returned" /\ callArg \in [cls : {"CentralStatus", "PartialCentralStatus"},
                                        data : StatusDatas] =>
        LET exact == IF callArg.cls = "CentralStatus" THEN 54 ELSE 43
            data == callArg.data
            at == IF exact = 54 THEN 30 ELSE 23
            hour == data[at + 1]
            minute == data[at + 2]
            day == data[at + 3]
            month == data[at + 4]
            year == 2000 + data[at + 5]
            leap == year \in {2000, 2252}
            valid == /\ hour \in 0 .. 23
                     /\ minute \in 0 .. 59
                     /\ \/ month \in {1, 3, 5, 7, 8, 10, 12} /\ day \in 1 .. 31
                        \/ month \in {4, 6, 9, 11} /\ day \in 1 .. 30
                        \/ month = 2 /\ day \in 1 .. (IF leap THEN 29 ELSE 28)
        IN  /\ Len(data) # exact => callResult = NoStatus
            /\ Len(data) = exact =>
                 /\ callResult # NoStatus
                 /\ ~valid => callResult.central_datetime = NoDatetime
                 /\ valid => callResult.central_datetime =
                                [year |-> year, month |-> month, day |-> day,
                                 hour |-> hour, minute |-> minute]

\* a 43-byte status with the date bytes 29 February 2001 was parsed and has
\* no date-time
C24_Witness ==
    /\ callpc = "returned"
    /\ callArg \in [cls : {"PartialCentralStatus"}, data : StatusDatas]
    /\ Len(callArg.data) = 43
    /\ SubSeq(callArg.data, 24, 28) = <<23, 59, 29, 2, 1>>
    /\ callResult # NoStatus
    /\ callResult.central_datetime = NoDatetime

(***************************************************************************)
(* C25: in send_command with wait_response=True the pending-response slot  *)
(* of the connection is set before the first byte of the command is        *)
(* written, so a response frame that the read task processes at any point  *)
(* after the write began finds the slot present: the write leaves the slot *)
(* set, and while a written command awaits its response the slot is taken  *)
(* away only by the processing of a frame.                                 *)
(***************************************************************************)
C25_ResponseFindsSlot ==
    [][/\ \A o \in Ops :
             (o \notin panelRecv /\ o \in panelRecv') => pending_response' # 0
       /\ (/\ \E o \in Ops : cpc[o] \in {"drain", "wait"} /\ cpc'[o] = cpc[o]
           /\ conn' = "up"
           /\ pending_response # 0
           /\ pending_response' = 0)
              => lastIO'.kind = "read"]_vars

(***************************************************************************)
(* C26: stop() on a running server closes every registered connection and  *)
(* empties the registry before it closes the listener; when stop()         *)
(* returns, is_running is false and the registry is empty; stop() on a     *)
(* server that is not running changes nothing.                             *)
(***************************************************************************)
C26_StopClosesAll ==
    [][/\ (listener = "open" /\ listener' = "closed") =>
              /\ \A c \in connections : writer'[c] = "closed"
              /\ connections' = {}
       /\ (stop_result'.kind = "returned" /\ stop_result.kind # "returned") =>
              /\ ~stop_result'.is_running
              /\ stop_result'.registry = {}
       /\ (stop_result'.kind = "noop" /\ stop_result.kind # "noop") =>
              UNCHANGED <<srv_running, listener, connections, hpc, writer>>]_vars

(***************************************************************************)
(* C27: when a connection's read loop ends (EOF, read error or             *)
(* cancellation), the on_disconnect callbacks are invoked first, then the  *)
(* connection is removed from the registry, then the writer is closed; in  *)
(* particular the connection is still registered while the on_disconnect   *)
(* callbacks run.                                                          *)
(***************************************************************************)
C27_DisconnectOrder ==
    \A c \in ConnIds :
        hpc[c] = "ended" => cleanup[c] = <<"on_disconnect", "remove", "close">>

(***************************************************************************)
(* C28: in the legacy handler connect_and_auth_alarm makes at most three   *)
(* connect+auth attempts and stops at the first success; when all three    *)
(* fail, no arm, disarm, panic or status request is sent for that command  *)
(* or poll.                                                                *)
(***************************************************************************)
C28_ThreeAttempts ==
    /\ Len(tries) <= 3
    /\ \A i \in 1 .. Len(tries) : tries[i] = "ok" => i = Len(tries)
    /\ (lpc = "auth" /\ tries # <<>>) => tries[Len(tries)] # "ok"
    /\ requests # <<>> => (tries # <<>> /\ tries[Len(tries)] = "ok")
    /\ (lpc = "done" /\ Len(tries) = 3 /\ tries[3] # "ok") => requests = <<>>
    /\ (lpc = "done" /\ tries[Len(tries)] # "ok") => Len(tries) = 3

\* three attempts failed, the last one on a rejected password, and the
\* handler gave the command up without a request
C28_Witness ==
    /\ lpc = "done"
    /\ lcommand = "ARM_AWAY"
    /\ Len(tries) = 3
    /\ tries[3] = "AuthError"
    /\ requests = <<>>

(***************************************************************************)
(* C29: in the legacy client, after any socket error during a command      *)
(* (timeout, reset, broken pipe, other OS error) the client is in the      *)
(* disconnected state, and the next connect() or command opens a new       *)
(* socket instead of reusing the failed one; while connected and           *)
(* error-free, connect() reuses the existing socket and opens none.        *)
(***************************************************************************)
C29_ReconnectAfterError ==
    /\ lastCall.error \in SocketErrors =>
          (~client.is_connected /\ client.socket = 0)
    /\ client.socket \notin client.failed
    /\ (lastCall.call \in {"connect", "command"} /\ ~lastCall.before.is_connected) =>
          /\ client.opened = lastCall.before.opened + 1
          /\ client.socket \in {0, client.opened}
    /\ (lastCall.call = "connect" /\ lastCall.before.is_connected) =>
          /\ client.socket = lastCall.before.socket
          /\ client.opened = lastCall.before.opened
          /\ client.is_connected

\* after a command failed on socket 1 with a timeout, the next command was
\* sent on a new socket
C29_Witness ==
    /\ lastCall.call = "command"
    /\ lastCall.error = "none"
    /\ ~lastCall.before.is_connected
    /\ lastCall.before.failed = {1}
    /\ client.is_connected
    /\ client.socket = 2

C31_PollLoopSurvives ==
    /\ poll_pc \in {"returned", "raised"} /\ poll_protocol # "none" => shutdown_event
    /\ \A i \in 1 .. Len(poll_log) : poll_log[i].how # "raised"

\* the last poll got no parseable status: no response at all, a NACK, or a
\* payload (the content without a leading 0xFE) of another length
C32_NoStatus ==
    \/ sWhy \in {"no_connection", "timeout"}
    \/ /\ sWhy = "response"
       /\ \/ sContent # <<>> /\ Len(sContent) < 43 /\ sContent[1] \in 224 .. 234
          \/ LET payload == IF Len(sContent) > 1 /\ sContent[1] = 254
                              THEN Tail(sContent) ELSE sContent
             IN  Len(payload) \notin {43, 54}

(***************************************************************************)
(* C32: an ISECNet poll that does not obtain a parseable status (no        *)
(* tracked connection, response timeout, NACK response, or a payload that  *)
(* is neither 43 nor 54 bytes) leaves zone_states unchanged and publishes  *)
(* nothing.                                                                *)
(***************************************************************************)
C32_FailedPollNoEffect ==
    [][C32_NoStatus' => sZones' = sZones /\ sPolled' = NoPoll]_vars

\* polls without a parseable status, of each kind, with zone states that a
\* poll had set before
C32_Witness ==
    /\ C32_NoStatus
    /\ \E z \in Zones : sZones[z] = "Disparada"
    /\ \E z \in Zones : sZones[z] = "Abierta"
    /\ \/ sWhy = "timeout"
       \/ sWhy = "response" /\ Len(sContent) = 53

\* one extraction step from (buf, out) to r is one of the three kinds: it
\* stops and changes nothing; it discards exactly the first byte; or it
\* emits one frame whose bytes (the bare 0xF7, or the frame as built) are
\* the ones it takes off the front of the buffer
C33_StepKind(buf, out, r) ==
    \/ ~r.again /\ r.buffer = buf /\ r.frames = out
    \/ r.again /\ buf # <<>> /\ r.buffer = Tail(buf) /\ r.frames = out
    \/ /\ r.again
       /\ Len(r.frames) = Len(out) + 1
       /\ SubSeq(r.frames, 1, Len(out)) = out
       /\ LET frame == r.frames[Len(r.frames)]
              taken == Len(buf) - Len(r.buffer)
          IN  /\ taken >= 1
              /\ r.buffer = SubSeq(buf, taken + 1, Len(buf))
              /\ \/ SubSeq(buf, 1, taken) = <<ISECNET_COMMAND_HEARTBEAT>>
                        /\ frame = ISECNetFrame(ISECNET_COMMAND_HEARTBEAT, <<>>)
                 \/ SubSeq(buf, 1, taken) = ISECNetFrame_build(frame)

RECURSIVE C33_LoopEnds(_, _, _)
\* the loop of feed from (buf, out) stops within `fuel` further steps, each
\* of them of one of the three kinds
C33_LoopEnds(buf, out, fuel) ==
    LET r == try_extract_frame(buf, out)
    IN  /\ C33_StepKind(buf, out, r)
        /\ r.again => /\ fuel > 0
                      /\ Len(r.buffer) < Len(buf)
                      /\ C33_LoopEnds(r.buffer, r.frames, fuel - 1)

(***************************************************************************)
(* C33: every call to ISECNetFrameReader.feed terminates on every input:   *)
(* each extraction step either emits one frame and consumes its bytes,     *)
(* discards exactly one byte, or stops (so the loop ends within as many    *)
(* steps as the buffer has bytes); a malformed length or a checksum        *)
(* failure yields no error, only a discarded byte.  Stated for the buffer  *)
(* the reader holds and every chunk that may be fed next.                  *)
(***************************************************************************)
C33_FeedTerminates ==
    \A n \in 1 .. (Len(stream) - fed) :
        LET buf == buffer \o SubSeq(stream, fed + 1, fed + n)
        IN  C33_LoopEnds(buf, <<>>, Len(buf))

\* a stream that begins with a zero length or a checksum failure was fed in
\* two or more chunks: two bytes were discarded and the frame after them
\* emitted
C33_Witness ==
    /\ Len(stream) = 5 /\ fed = 5 /\ nfeeds >= 2
    /\ stream[1] \in {0, 1}
    /\ buffer = <<>>
    /\ frames = <<ISECNetFrame(ResponseCode_ACK, <<>>)>>

(***************************************************************************)
(* C40: resynchronization is prompt: if the bytes fed so far end with a    *)
(* complete well-formed frame (correct length byte and checksum), that     *)
(* frame has been emitted by the time feed returns, whatever garbage bytes *)
(* preceded it in the stream.                                              *)
(***************************************************************************)
C40_PromptResync ==
    \A k \in 3 .. fed :
        LET tail == SubSeq(stream, fed - k + 1, fed)
            frame == ISECNetFrame_try_parse(tail)
        IN  frame # NoFrame =>
                /\ frames # <<>>
                /\ frames[Len(frames)] = frame

(***************************************************************************)
(* C34: mutations of the connection registry are mutually exclusive under  *)
(* the manager's lock: an add (new connection accepted) or a remove (read  *)
(* loop ended) never takes effect between the moment close_all snapshots   *)
(* the connections and the moment it clears the registry, so every         *)
(* connection that close_all removes from the registry has been closed.    *)
(***************************************************************************)
C34_RegistryExclusive ==
    [][/\ (stop_pc = "close_all" /\ stop_pc' = "close_all") =>
              connections' = connections
       /\ (stop_pc = "close_all" /\ stop_pc' # "close_all") =>
              \A c \in connections : writer'[c] = "closed"]_vars

(***************************************************************************)
(* C35: on one connection, writes are serialized: the bytes of an auto-ack *)
(* written by the read task never appear inside the bytes of a command     *)
(* frame written by the dispatch path (nor the bytes of one command inside *)
(* another's), and all writes to the connection's writer are performed on  *)
(* the server's event loop even though commands are submitted from the     *)
(* MQTT, polling and timer threads.                                        *)
(***************************************************************************)
C35_WritesSerialized ==
    LET sent == wire \o wbuf
    IN  /\ \A i \in 1 .. Len(sent) : \A j \in i .. Len(sent) :
              sent[i].w = sent[j].w =>
                  \A k \in i .. j : sent[k].w = sent[i].w
        /\ \A w \in Writes :
              wpc[w] \in {"drain", "done"} /\ wfrom[w] # "none" =>
                  [i \in 1 .. Len(WriteBytes(wfrom[w])) |->
                      (SelectSeq(sent, LAMBDA x : x.w = w))[i].b]
                    = WriteBytes(wfrom[w])
        /\ \A i \in 1 .. Len(wlog) : wlog[i].by = "loop"

\* a command submitted by the MQTT thread before the read task wrote an
\* auto-ack, and written after it; a second command from the polling
\* thread; the socket has sent part of a frame
C35_Witness ==
    /\ wfrom = <<"mqtt", "read", "poll">>
    /\ wlog[1].w = 2
    /\ \A w \in Writes : wpc[w] = "done"
    /\ wire # <<>> /\ wbuf # <<>>
    /\ wire[Len(wire)].w = wbuf[1].w

(***************************************************************************)
(* C36: a waiter created for command B is completed only by a frame the    *)
(* panel sent after B was written: the response to an earlier command A    *)
(* whose waiter timed out, arriving late while B is waiting, is never      *)
(* returned as B's response.                                               *)
(***************************************************************************)
C36_NoLateResponse ==
    [][\A b \in Ops :
          (/\ cpc[b] = "wait"
           /\ cpc'[b] = "done"
           /\ lastIO'.kind = "read"
           /\ lastIO'.how = "completed")
          => (lastIO'.re = b \/ ~lastIO'.late)]_vars

(***************************************************************************)
(* C37: whenever no send_command call is in progress on a connection, that *)
(* connection's pending-response slot is empty: the slot is cleared on     *)
(* every exit of send_command, including a response received, a timeout,   *)
(* and a write or flush error raised after the slot was created.           *)
(***************************************************************************)
C37_SlotEmptyWhenIdle ==
    (\A o \in Ops : cpc[o] \notin {"drain", "wait", "expired"})
        => pending_response = 0

\* no connection is between the end of its read loop and its on_disconnect
\* callbacks, and every connection in its read loop is registered
C38_CallbacksHaveRun ==
    \A c \in ConnIds :
        /\ hpc[c] # "callbacks"
        /\ hpc[c] = "reading" => c \in connections

(***************************************************************************)
(* C38: after any sequence of panel connects and disconnects (several      *)
(* connections may be open at once), once the connect and disconnect       *)
(* callbacks have run the ISECNet handler's connection_id is None only if  *)
(* the server has no registered connection, and when it is not None it     *)
(* names a registered connection.                                          *)
(***************************************************************************)
C38_TrackedConnection ==
    C38_CallbacksHaveRun =>
        /\ handler_connection_id = 0 => connections = {}
        /\ handler_connection_id # 0 => handler_connection_id \in connections

(***************************************************************************)
(* C39: a Triggered zone can always be cleared; in particular in the       *)
(* ISECNet handler a successful DISARM followed by a poll reporting the    *)
(* zone closed leaves a zone that was Disparada in state Cerrada.          *)
(***************************************************************************)
C39_DisarmThenPollClears ==
    [][\A z \in Zones :
          ( /\ zProtocol = "isecnet"
            /\ lastOp.kind = "disarm"
            /\ zone_states[z] = "Disparada"
            /\ lastOp'.kind = "poll"
            /\ z \notin lastOp'.open \cup lastOp'.violated )
          => zone_states'[z] = "Cerrada"]_vars

=============================================================================
